---- MODULE Spec2Model ----
(***************************************************************************)
(* The modal-editing simulator of vimgym: the text buffer with its undo    *)
(* and redo stacks (simulator/buffer.py), the mode manager                 *)
(* (simulator/modes.py), the command processor (simulator/commands.py)     *)
(* and the simulator facade (simulator/simulator.py).                      *)
(*                                                                         *)
(* A string is a sequence of one-character strings; a key is a token:      *)
(* a printable character stands for itself, and "Esc", "C-c", "C-r",       *)
(* "C-v", "CR", "BS" and "Tab" stand for '\x1b', '\x03', '\x12', '\x16',   *)
(* '\r', '\x08' and '\t'. A position is <<line, column>>, 0-indexed as in  *)
(* the source; None is the empty tuple.                                    *)
(***************************************************************************)
EXTENDS Integers, Sequences, FiniteSets, TLC

VARIABLES
    buffer,             \* VimBuffer: lines, cursor_pos, visual_start, visual_end,
                        \*            undo_stack, redo_stack, modified
    mode_manager,       \* ModeManager: current_mode, previous_mode, mode_history
    command_processor,  \* VimCommandProcessor: repeat_count, command_buffer,
                        \*            command_history, last_command
    simulator,          \* VimSimulator: last_command, command_count, error_message
    last,               \* the last call made: its name, argument and outcome
    pre,                \* the buffer, mode manager and processor before that call
    calls,              \* how many calls were made so far
    current_exercise    \* ExerciseEngine.current_exercise: the ExerciseState of
                        \*            the exercise in progress

vars == <<buffer, mode_manager, command_processor, simulator, last, pre, calls,
          current_exercise>>

(***************************************************************************)
(* Bounds of the model.                                                    *)
(***************************************************************************)
\* buffer.py:37 sets max_undo_levels to 100; the model scales it down so that
\* the eviction of old snapshots happens within the explored runs.
max_undo_levels == 3
\* modes.py:134-135 cut a history longer than 100 entries down to its last 50;
\* scaled down alike.
mode_history_limit == 4
mode_history_keep == 2
\* modes.py:323 saves the last 10 entries of the history; scaled down alike.
mode_history_saved == 3
\* Number of keys of one run of the key-level specification.
MaxKeys == 4
\* Number of calls of one run of the buffer-level specification.
MaxBufferCalls == 4
\* Number of calls of one run of the mode-level specification.
MaxModeCalls == 6
\* Largest repeat count a digit key may build up.
MaxRepeat == 19
\* Number of calls of one run of the simulator-level specification.
MaxSessionCalls == 4
\* Number of keys of one run of the repeat-count specification.
MaxCountedKeys == 3
\* Number of keys of one run of the Normal-mode command specification.
MaxCommandKeys == 3
\* Number of keys of one run of the word-motion specification.
MaxWordKeys == 3
\* Number of keys of one run of the response specification.
MaxResponseKeys == 4
\* Number of calls of one run of the state-restoring specification.
MaxRestoreCalls == 4
\* Number of calls of one run of the mode-state specification.
MaxModeStateCalls == 5
\* Number of keys of one run of the substitute-command specification.
MaxSubstituteKeys == 11
\* Number of keys of one run of the pending-input specification.
MaxPendingKeys == 4
\* Number of calls of one run of the exercise specification.
MaxExerciseCalls == 5

None == <<>>

(***************************************************************************)
(* Python's str and list primitives.                                       *)
(***************************************************************************)
Min(a, b) == IF a < b THEN a ELSE b
Max(a, b) == IF a > b THEN a ELSE b

\* s[:n] and s[n:] for n >= 0: a slice never raises, it clamps.
Take(s, n) == SubSeq(s, 1, Min(n, Len(s)))
Drop(s, n) == SubSeq(s, Min(n, Len(s)) + 1, Len(s))
\* s[i:j] for 0 <= i, j
Slice(s, i, j) == SubSeq(s, Min(i, Len(s)) + 1, Min(j, Len(s)))
\* list.insert(i, x) for 0 <= i
ListInsert(s, i, x) == Take(s, i) \o <<x>> \o Drop(s, i)
\* del list[i] for 0 <= i < len
ListDel(s, i) == Take(s, i) \o Drop(s, i + 1)
\* list[i] = x for 0 <= i < len
ListSet(s, i, x) == [s EXCEPT ![i + 1] = x]

RECURSIVE SplitFrom(_, _)
\* str.split('\n') continued: `cur` is the piece being read.
SplitFrom(s, cur) ==
    IF s = <<>> THEN <<cur>>
    ELSE IF Head(s) = "\n" THEN <<cur>> \o SplitFrom(Tail(s), <<>>)
    ELSE SplitFrom(Tail(s), Append(cur, Head(s)))
Split(s) == SplitFrom(s, <<>>)

Letters == {"a", "b", "c", "d", "e", "f", "g", "h", "i", "j", "k", "l", "m",
            "n", "o", "p", "q", "r", "s", "t", "u", "v", "w", "x", "y", "z",
            "A", "B", "C", "D", "E", "F", "G", "H", "I", "J", "K", "L", "M",
            "N", "O", "P", "Q", "R", "S", "T", "U", "V", "W", "X", "Y", "Z"}
Digits == {"0", "1", "2", "3", "4", "5", "6", "7", "8", "9"}
Punctuation == {".", ":", "/", "?", "^", "$", "_", "*", "#"}
Spaces == {" ", "\n", "\t"}
isalnum(c) == c \in Letters \cup Digits
isspace(c) == c \in Spaces
isdigit(c) == c \in Digits
\* len(key) == 1 and key.isprintable(): the control keys are not printable
isprintable(c) == c \in Letters \cup Digits \cup Punctuation \cup {" "}

(***************************************************************************)
(* VimBuffer (simulator/buffer.py). An operation takes the buffer b and    *)
(* yields [buf, ret, raised]: the buffer after the call, the value         *)
(* returned, and whether the call raised instead of returning. A snapshot  *)
(* (BufferState) is [lines, cursor_pos]; its description string is left    *)
(* out, nothing reads it.                                                  *)
(***************************************************************************)
Returned(b, r) == [buf |-> b, ret |-> r, raised |-> FALSE]
Raised(b) == [buf |-> b, ret |-> FALSE, raised |-> TRUE]

BufferState(b) == [lines |-> b.lines, cursor_pos |-> b.cursor_pos]

line_of(b) == b.cursor_pos[1]
col_of(b) == b.cursor_pos[2]
\* self.lines[i], 0-indexed
LineAt(b, i) == b.lines[i + 1]

\* undo_stack[-max_undo_levels:]
LastN(s, n) == IF Len(s) > n THEN SubSeq(s, Len(s) - n + 1, Len(s)) ELSE s

\* save_state as it would be if it left the redo stack alone
save_state_keeping_redo(b) ==
    LET pushed == Append(b.undo_stack, BufferState(b))
    IN  [b EXCEPT !.undo_stack = IF Len(pushed) > max_undo_levels
                                 THEN LastN(pushed, max_undo_levels)
                                 ELSE pushed]

\* save_state as it would be if it kept the oldest snapshots at the limit
save_state_keeping_oldest(b) ==
    LET pushed == Append(b.undo_stack, BufferState(b))
    IN  [b EXCEPT !.undo_stack = IF Len(pushed) > max_undo_levels
                                 THEN SubSeq(pushed, 1, max_undo_levels)
                                 ELSE pushed,
                  !.redo_stack = <<>>]

save_state(b) ==
    LET pushed == Append(b.undo_stack, BufferState(b))
    IN  [b EXCEPT !.undo_stack = IF Len(pushed) > max_undo_levels
                                 THEN LastN(pushed, max_undo_levels)
                                 ELSE pushed,
                  !.redo_stack = <<>>]

\* VimBuffer(content)
VimBuffer(content) ==
    LET b0 == [lines |-> IF content # <<>> THEN Split(content) ELSE << <<>> >>,
               cursor_pos |-> <<0, 0>>,
               visual_start |-> None,
               visual_end |-> None,
               undo_stack |-> <<>>,
               redo_stack |-> <<>>,
               modified |-> FALSE]
    IN  save_state(b0)

\* undo as it would be if it restored the lines and not the cursor
undo_lines_only(b) ==
    IF Len(b.undo_stack) <= 1 THEN Returned(b, FALSE)
    ELSE LET previous_state == b.undo_stack[Len(b.undo_stack)]
         IN  Returned([b EXCEPT !.redo_stack = Append(b.redo_stack, BufferState(b)),
                                !.undo_stack = SubSeq(b.undo_stack, 1, Len(b.undo_stack) - 1),
                                !.lines = previous_state.lines],
                      TRUE)

undo(b) ==
    IF Len(b.undo_stack) <= 1 THEN Returned(b, FALSE)
    ELSE LET previous_state == b.undo_stack[Len(b.undo_stack)]
         IN  Returned([b EXCEPT !.redo_stack = Append(b.redo_stack, BufferState(b)),
                                !.undo_stack = SubSeq(b.undo_stack, 1, Len(b.undo_stack) - 1),
                                !.lines = previous_state.lines,
                                !.cursor_pos = previous_state.cursor_pos],
                      TRUE)

\* redo() calls save_state, which clears the redo stack, and then pops from
\* the redo stack: list.pop() on the empty list raises IndexError.
redo(b) ==
    IF b.redo_stack = <<>> THEN Returned(b, FALSE)
    ELSE LET saved == save_state(b)
         IN  IF saved.redo_stack = <<>> THEN Raised(saved)
             ELSE LET next_state == saved.redo_stack[Len(saved.redo_stack)]
                  IN  Returned([saved EXCEPT
                                   !.redo_stack = SubSeq(saved.redo_stack, 1,
                                                         Len(saved.redo_stack) - 1),
                                   !.lines = next_state.lines,
                                   !.cursor_pos = next_state.cursor_pos],
                               TRUE)

get_line_count(b) == Len(b.lines)

set_content(b, content) ==
    LET saved == save_state(b)
    IN  Returned([saved EXCEPT
                     !.lines = IF content # <<>> THEN Split(content) ELSE << <<>> >>,
                     !.cursor_pos = <<0, 0>>,
                     !.modified = TRUE],
                 TRUE)

is_valid_position(b, line, col) ==
    IF line < 0 \/ line >= Len(b.lines) THEN FALSE
    ELSE 0 <= col /\ col <= Len(LineAt(b, line))

clamp_position(b, line, col) ==
    LET l == Max(0, Min(line, Len(b.lines) - 1))
    IN  <<l, Max(0, Min(col, Len(LineAt(b, l))))>>

RECURSIVE move_steps(_, _, _, _, _)
\* the loop of move_cursor: yields <<line, col, moved>>
move_steps(b, direction, count, pos, moved) ==
    IF count <= 0 THEN <<pos[1], pos[2], moved>>
    ELSE LET line == pos[1]
             col == pos[2]
         IN  IF direction = "up" /\ line > 0
             THEN move_steps(b, direction, count - 1,
                             <<line - 1, Min(col, Len(LineAt(b, line - 1)))>>, TRUE)
             ELSE IF direction = "down" /\ line < Len(b.lines) - 1
             THEN move_steps(b, direction, count - 1,
                             <<line + 1, Min(col, Len(LineAt(b, line + 1)))>>, TRUE)
             ELSE IF direction = "left" /\ col > 0
             THEN move_steps(b, direction, count - 1, <<line, col - 1>>, TRUE)
             ELSE IF direction = "right" /\ col < Len(LineAt(b, line))
             THEN move_steps(b, direction, count - 1, <<line, col + 1>>, TRUE)
             ELSE move_steps(b, direction, count - 1, pos, moved)

move_cursor(b, direction, count) ==
    LET r == move_steps(b, direction, count, b.cursor_pos, FALSE)
    IN  Returned([b EXCEPT !.cursor_pos = <<r[1], r[2]>>], r[3])

move_to_position(b, line, col) ==
    IF is_valid_position(b, line, col)
    THEN Returned([b EXCEPT !.cursor_pos = <<line, col>>], TRUE)
    ELSE Returned(b, FALSE)

RECURSIVE InsertLines(_, _, _)
\* for i, line_text in enumerate(lines_to_insert[1:], 1): lines.insert(line + i, line_text)
InsertLines(lines, at, pieces) ==
    IF pieces = <<>> THEN lines
    ELSE InsertLines(ListInsert(lines, at, Head(pieces)), at + 1, Tail(pieces))

insert_text(b, text) ==
    IF text = <<>> THEN Returned(b, FALSE)
    ELSE
    LET saved == save_state(b)
        line == line_of(b)
        col == col_of(b)
        current_line == LineAt(b, line)
    IN  IF \E i \in 1..Len(text) : text[i] = "\n"
        THEN LET lines_to_insert == Split(text)
                 before_cursor == Take(current_line, col)
                 after_cursor == Drop(current_line, col)
                 first == ListSet(saved.lines, line, before_cursor \o lines_to_insert[1])
                 more == InsertLines(first, line + 1, Tail(lines_to_insert))
                 last_line_idx == line + Len(lines_to_insert) - 1
                 joined == ListSet(more, last_line_idx,
                                   more[last_line_idx + 1] \o after_cursor)
             IN  Returned([saved EXCEPT
                              !.lines = joined,
                              !.cursor_pos = <<last_line_idx,
                                               Len(lines_to_insert[Len(lines_to_insert)])>>,
                              !.modified = TRUE],
                          TRUE)
        ELSE Returned([saved EXCEPT
                          !.lines = ListSet(saved.lines, line,
                                            Take(current_line, col) \o text
                                                \o Drop(current_line, col)),
                          !.cursor_pos = <<line, col + Len(text)>>,
                          !.modified = TRUE],
                      TRUE)

\* delete_char_at_cursor as it would be if it took its snapshot before looking
\* at the cursor
delete_char_at_cursor_saving_first(b) ==
    LET line == line_of(b)
        col == col_of(b)
        current_line == LineAt(b, line)
    IN  IF col < Len(current_line)
        THEN Returned([save_state(b) EXCEPT
                          !.lines = ListSet(b.lines, line,
                                            Take(current_line, col)
                                                \o Drop(current_line, col + 1)),
                          !.modified = TRUE],
                      TRUE)
        ELSE IF line < Len(b.lines) - 1
        THEN Returned([save_state(b) EXCEPT
                          !.lines = ListDel(ListSet(b.lines, line,
                                                    current_line \o LineAt(b, line + 1)),
                                            line + 1),
                          !.modified = TRUE],
                      TRUE)
        ELSE Returned(save_state(b), FALSE)

delete_char_at_cursor(b) ==
    LET line == line_of(b)
        col == col_of(b)
        current_line == LineAt(b, line)
    IN  IF col < Len(current_line)
        THEN Returned([save_state(b) EXCEPT
                          !.lines = ListSet(b.lines, line,
                                            Take(current_line, col)
                                                \o Drop(current_line, col + 1)),
                          !.modified = TRUE],
                      TRUE)
        ELSE IF line < Len(b.lines) - 1
        THEN Returned([save_state(b) EXCEPT
                          !.lines = ListDel(ListSet(b.lines, line,
                                                    current_line \o LineAt(b, line + 1)),
                                            line + 1),
                          !.modified = TRUE],
                      TRUE)
        ELSE Returned(b, FALSE)

delete_char_before_cursor(b) ==
    LET line == line_of(b)
        col == col_of(b)
        current_line == LineAt(b, line)
    IN  IF col > 0
        THEN Returned([save_state(b) EXCEPT
                          !.lines = ListSet(b.lines, line,
                                            Take(current_line, col - 1)
                                                \o Drop(current_line, col)),
                          !.cursor_pos = <<line, col - 1>>,
                          !.modified = TRUE],
                      TRUE)
        ELSE IF line > 0
        THEN LET previous_line == LineAt(b, line - 1)
             IN  Returned([save_state(b) EXCEPT
                              !.lines = ListDel(ListSet(b.lines, line - 1,
                                                        previous_line \o current_line),
                                                line),
                              !.cursor_pos = <<line - 1, Len(previous_line)>>,
                              !.modified = TRUE],
                          TRUE)
        ELSE Returned(b, FALSE)

\* delete_line as it would be without its only-line case
delete_line_removing_only_line(b, line_num_arg) ==
    LET line_num == IF line_num_arg = None THEN line_of(b) ELSE line_num_arg[1]
    IN  IF 0 <= line_num /\ line_num < Len(b.lines)
        THEN LET removed == ListDel(b.lines, line_num)
                 at == IF line_num >= Len(removed) THEN Max(0, Len(removed) - 1)
                       ELSE line_num
             IN  Returned([save_state(b) EXCEPT
                              !.lines = removed,
                              !.cursor_pos = <<at, IF removed = <<>> THEN 0
                                                   ELSE Min(col_of(b), Len(removed[at + 1]))>>,
                              !.modified = TRUE],
                          TRUE)
        ELSE Returned(b, FALSE)

\* delete_line(line_num); the argument is None or <<line_num>>
delete_line(b, line_num_arg) ==
    LET line_num == IF line_num_arg = None THEN line_of(b) ELSE line_num_arg[1]
    IN  IF 0 <= line_num /\ line_num < Len(b.lines)
        THEN LET saved == save_state(b)
             IN  IF Len(b.lines) = 1
                 THEN Returned([saved EXCEPT !.lines = ListSet(b.lines, 0, <<>>),
                                             !.modified = TRUE],
                               TRUE)
                 ELSE LET removed == ListDel(b.lines, line_num)
                          at == IF line_num >= Len(removed) THEN Len(removed) - 1
                                ELSE line_num
                          col == Min(col_of(b), Len(removed[at + 1]))
                      IN  Returned([saved EXCEPT !.lines = removed,
                                                 !.cursor_pos = <<at, col>>,
                                                 !.modified = TRUE],
                                   TRUE)
        ELSE Returned(b, FALSE)

insert_line_below(b, content) ==
    LET line == line_of(b)
    IN  Returned([save_state(b) EXCEPT
                     !.lines = ListInsert(b.lines, line + 1, content),
                     !.cursor_pos = <<line + 1, Len(content)>>,
                     !.modified = TRUE],
                 TRUE)

insert_line_above(b, content) ==
    LET line == line_of(b)
    IN  Returned([save_state(b) EXCEPT
                     !.lines = ListInsert(b.lines, line, content),
                     !.cursor_pos = <<line, Len(content)>>,
                     !.modified = TRUE],
                 TRUE)

RECURSIVE JoinLines(_)
\* '\n'.join(lines)
JoinLines(ls) ==
    IF ls = <<>> THEN <<>>
    ELSE IF Len(ls) = 1 THEN ls[1]
    ELSE ls[1] \o <<"\n">> \o JoinLines(Tail(ls))

get_content(b) == JoinLines(b.lines)

\* get_visual_selection(): None, or the selected text
get_visual_selection(b) ==
    IF b.visual_start = None \/ b.visual_end = None THEN [none |-> TRUE, text |-> <<>>]
    ELSE
    LET swap == \/ b.visual_start[1] > b.visual_end[1]
                \/ (b.visual_start[1] = b.visual_end[1]
                    /\ b.visual_start[2] > b.visual_end[2])
        s == IF swap THEN b.visual_end ELSE b.visual_start
        e == IF swap THEN b.visual_start ELSE b.visual_end
    IN  IF s[1] = e[1]
        THEN [none |-> FALSE, text |-> Slice(LineAt(b, s[1]), s[2], e[2] + 1)]
        ELSE [none |-> FALSE,
              text |-> JoinLines(<<Drop(LineAt(b, s[1]), s[2])>>
                                 \o SubSeq(b.lines, s[1] + 2, e[1])
                                 \o <<Take(LineAt(b, e[1]), e[2] + 1)>>)]

start_visual_selection(b) ==
    [b EXCEPT !.visual_start = b.cursor_pos, !.visual_end = b.cursor_pos]

update_visual_selection(b) ==
    IF b.visual_start # None THEN [b EXCEPT !.visual_end = b.cursor_pos] ELSE b

clear_visual_selection(b) ==
    [b EXCEPT !.visual_start = None, !.visual_end = None]

\* VimBuffer.get_state; filename is never set
get_state(b) ==
    [lines |-> b.lines, cursor_pos |-> b.cursor_pos, visual_start |-> b.visual_start,
     visual_end |-> b.visual_end, modified |-> b.modified, filename |-> None]

\* dict.get(key, default) of a state dictionary
dict_get(state, key, default) == IF key \in DOMAIN state THEN state[key] ELSE default

\* VimBuffer.restore_state: the undo and redo stacks stay as they are, and the
\* cursor is clamped at the end. clamp_position(*cursor_pos) raises TypeError
\* when cursor_pos is not a pair, and IndexError when there is no line; the
\* fields are assigned by then
restore_state(b, state) ==
    LET assigned == [b EXCEPT !.lines = dict_get(state, "lines", << <<>> >>),
                              !.cursor_pos = dict_get(state, "cursor_pos", <<0, 0>>),
                              !.visual_start = dict_get(state, "visual_start", None),
                              !.visual_end = dict_get(state, "visual_end", None),
                              !.modified = dict_get(state, "modified", FALSE)]
    IN  IF Len(assigned.cursor_pos) # 2 \/ assigned.lines = <<>>
        THEN Raised(assigned)
        ELSE Returned([assigned EXCEPT
                          !.cursor_pos = clamp_position(assigned, assigned.cursor_pos[1],
                                                        assigned.cursor_pos[2])],
                      TRUE)

(***************************************************************************)
(* ModeManager (simulator/modes.py). An operation takes the manager m and  *)
(* yields [mm, ret].                                                       *)
(***************************************************************************)
VimMode == {"normal", "insert", "visual", "visual_line", "visual_block",
            "command", "replace"}

valid_transitions(mode) ==
    CASE mode = "normal" -> {"insert", "visual", "visual_line", "visual_block",
                             "command", "replace"}
      [] mode = "insert" -> {"normal"}
      [] mode = "visual" -> {"normal", "insert", "visual_line", "visual_block"}
      [] mode = "visual_line" -> {"normal", "insert", "visual", "visual_block"}
      [] mode = "visual_block" -> {"normal", "insert", "visual", "visual_line"}
      [] mode = "command" -> {"normal"}
      [] mode = "replace" -> {"normal"}
      [] OTHER -> {}

\* the keys of mode_commands
ModeCommandKeys == {"i", "I", "a", "A", "o", "O", "c", "C", "s", "S",
                    "v", "V", "C-v", ":", "/", "?", "R", "Esc", "C-c"}

mode_commands(command) ==
    CASE command \in {"i", "I", "a", "A", "o", "O", "c", "C", "s", "S"} -> "insert"
      [] command = "v" -> "visual"
      [] command = "V" -> "visual_line"
      [] command = "C-v" -> "visual_block"
      [] command \in {":", "/", "?"} -> "command"
      [] command = "R" -> "replace"
      [] command \in {"Esc", "C-c"} -> "normal"

ModeManager ==
    [current_mode |-> "normal", previous_mode |-> "normal", mode_history |-> <<"normal">>]

\* can_transition_to as it would be if staying in the current mode were legal
can_transition_to_or_stay(m, target_mode) ==
    target_mode = m.current_mode \/ target_mode \in valid_transitions(m.current_mode)

can_transition_to(m, target_mode) == target_mode \in valid_transitions(m.current_mode)

\* switch_mode as it would be if it did not record the mode it leaves
switch_mode_stale_previous(m, target_mode) ==
    IF ~can_transition_to(m, target_mode) THEN [mm |-> m, ret |-> FALSE]
    ELSE LET appended == Append(m.mode_history, target_mode)
         IN  [mm |-> [current_mode |-> target_mode,
                      previous_mode |-> m.previous_mode,
                      mode_history |-> IF Len(appended) > mode_history_limit
                                       THEN LastN(appended, mode_history_keep)
                                       ELSE appended],
              ret |-> TRUE]

\* switch_mode as it would be if it cut the history one entry later
switch_mode_cutting_late(m, target_mode) ==
    IF ~can_transition_to(m, target_mode) THEN [mm |-> m, ret |-> FALSE]
    ELSE LET appended == Append(m.mode_history, target_mode)
         IN  [mm |-> [current_mode |-> target_mode,
                      previous_mode |-> m.current_mode,
                      mode_history |-> IF Len(appended) > mode_history_limit + 1
                                       THEN LastN(appended, mode_history_keep)
                                       ELSE appended],
              ret |-> TRUE]

switch_mode(m, target_mode) ==
    IF ~can_transition_to(m, target_mode) THEN [mm |-> m, ret |-> FALSE]
    ELSE LET appended == Append(m.mode_history, target_mode)
         IN  [mm |-> [current_mode |-> target_mode,
                      previous_mode |-> m.current_mode,
                      mode_history |-> IF Len(appended) > mode_history_limit
                                       THEN LastN(appended, mode_history_keep)
                                       ELSE appended],
              ret |-> TRUE]

process_command(m, command) ==
    IF command \in ModeCommandKeys THEN switch_mode(m, mode_commands(command))
    ELSE [mm |-> m, ret |-> FALSE]

is_visual_mode(m) == m.current_mode \in {"visual", "visual_line", "visual_block"}

mode_reset(m) == ModeManager

\* get_state as it would be if it saved the whole history
mode_get_state_whole_history(m) ==
    [current_mode |-> m.current_mode, previous_mode |-> m.previous_mode,
     mode_history |-> m.mode_history]

\* ModeManager.get_state
mode_get_state(m) ==
    [current_mode |-> m.current_mode, previous_mode |-> m.previous_mode,
     mode_history |-> LastN(m.mode_history, mode_history_saved)]

\* restore_state as it would be if the history entries were taken as they are
mode_restore_state_trusting_history(m, state) ==
    LET current == dict_get(state, "current_mode", "normal")
        previous == dict_get(state, "previous_mode", "normal")
        history == dict_get(state, "mode_history", <<"normal">>)
    IN  IF current \in VimMode /\ previous \in VimMode
        THEN [current_mode |-> current, previous_mode |-> previous,
              mode_history |-> history]
        ELSE mode_reset(m)

\* ModeManager.restore_state: VimMode(value) raises ValueError for a value that
\* is no mode, and the manager is then reset
mode_restore_state(m, state) ==
    LET current == dict_get(state, "current_mode", "normal")
        previous == dict_get(state, "previous_mode", "normal")
        history == dict_get(state, "mode_history", <<"normal">>)
    IN  IF /\ current \in VimMode /\ previous \in VimMode
           /\ \A i \in 1..Len(history) : history[i] \in VimMode
        THEN [current_mode |-> current, previous_mode |-> previous,
              mode_history |-> history]
        ELSE mode_reset(m)

(***************************************************************************)
(* VimCommandProcessor (simulator/commands.py). The processor works on     *)
(* st = [buf, mm, cp]: the buffer, the mode manager and its own fields     *)
(* cp = [repeat_count, command_buffer, command_history, last_command].     *)
(* pending_operator, awaiting_motion and search_pattern are never written  *)
(* with anything but their initial values and are left out. A command      *)
(* yields [st, raised]; the value a command returns is never read.         *)
(***************************************************************************)
VimCommandProcessor ==
    [repeat_count |-> 1, command_buffer |-> <<>>, command_history |-> <<>>,
     last_command |-> <<>>]

\* CommandResult; message is left out, new_mode is a mode or "None", error is
\* "None" or the error's kind
CommandResult(success, mode_changed, new_mode, cursor_moved, buffer_modified, error) ==
    [success |-> success, mode_changed |-> mode_changed, new_mode |-> new_mode,
     cursor_moved |-> cursor_moved, buffer_modified |-> buffer_modified, error |-> error]

Ok(st) == [st |-> st, raised |-> FALSE]
\* a buffer call made by a command
OnBuffer(st, r) == [st |-> [st EXCEPT !.buf = r.buf], raised |-> r.raised]
\* a mode switch made by a command
OnMode(st, target_mode) == Ok([st EXCEPT !.mm = switch_mode(st.mm, target_mode).mm])

_reset_command_state(cp) == [cp EXCEPT !.repeat_count = 1, !.command_buffer = <<>>]

RECURSIVE SkipAlnum(_, _)
\* while col < len(line) and line[col].isalnum(): col += 1
SkipAlnum(line, col) ==
    IF col < Len(line) /\ isalnum(line[col + 1]) THEN SkipAlnum(line, col + 1) ELSE col

RECURSIVE SkipNonAlnum(_, _)
\* while col < len(line) and not line[col].isalnum(): col += 1
SkipNonAlnum(line, col) ==
    IF col < Len(line) /\ ~isalnum(line[col + 1]) THEN SkipNonAlnum(line, col + 1) ELSE col

RECURSIVE BackNonAlnum(_, _)
\* while col > 0 and not line[col].isalnum(): col -= 1     (col < len(line))
BackNonAlnum(line, col) ==
    IF col > 0 /\ ~isalnum(line[col + 1]) THEN BackNonAlnum(line, col - 1) ELSE col

RECURSIVE BackAlnum(_, _)
\* while col > 0 and line[col - 1].isalnum(): col -= 1
BackAlnum(line, col) ==
    IF col > 0 /\ isalnum(line[col]) THEN BackAlnum(line, col - 1) ELSE col

RECURSIVE SkipSpace(_, _)
\* while col < len(line) and line[col].isspace(): col += 1
SkipSpace(line, col) ==
    IF col < Len(line) /\ isspace(line[col + 1]) THEN SkipSpace(line, col + 1) ELSE col

RECURSIVE BackSpace(_, _)
\* while col >= 0 and line[col].isspace(): col -= 1
BackSpace(line, col) ==
    IF col >= 0 /\ isspace(line[col + 1]) THEN BackSpace(line, col - 1) ELSE col

_move_to_next_word_start(st) ==
    LET line == line_of(st.buf)
        col == col_of(st.buf)
        current_line == LineAt(st.buf, line)
        to == IF current_line # <<>> /\ col < Len(current_line)
              THEN SkipNonAlnum(current_line,
                                SkipAlnum(current_line, SkipNonAlnum(current_line, col)))
              ELSE col
    IN  IF to >= Len(current_line)
        THEN IF line < get_line_count(st.buf) - 1
             THEN OnBuffer(st, move_to_position(st.buf, line + 1, 0))
             ELSE Ok(st)
        ELSE OnBuffer(st, move_to_position(st.buf, line, to))

\* current_line[col] with col >= len(current_line) raises IndexError
_move_to_prev_word_start(st) ==
    LET line == line_of(st.buf)
        col == col_of(st.buf)
        current_line == LineAt(st.buf, line)
    IN  IF col > 0
        THEN IF current_line # <<>>
             THEN IF col - 1 > 0 /\ col - 1 >= Len(current_line)
                  THEN [st |-> st, raised |-> TRUE]
                  ELSE OnBuffer(st, move_to_position(st.buf, line,
                           BackAlnum(current_line, BackNonAlnum(current_line, col - 1))))
             ELSE OnBuffer(st, move_to_position(st.buf, line, col - 1))
        ELSE IF line > 0
        THEN OnBuffer(st, move_to_position(st.buf, line - 1,
                                           Len(LineAt(st.buf, line - 1))))
        ELSE OnBuffer(st, move_to_position(st.buf, line, col))

_move_to_word_end(st) ==
    LET line == line_of(st.buf)
        col == col_of(st.buf)
        current_line == LineAt(st.buf, line)
        skipped == IF ~isalnum(current_line[col + 1])
                   THEN SkipNonAlnum(current_line, col) ELSE col
        stop == SkipAlnum(current_line, skipped)
        to == IF current_line # <<>> /\ col < Len(current_line)
              THEN (IF stop > 0 THEN stop - 1 ELSE stop)
              ELSE col
    IN  OnBuffer(st, move_to_position(st.buf, line, to))

\* the body of _move_word's loop
WordStep(st, direction) ==
    CASE direction = "forward" -> _move_to_next_word_start(st)
      [] direction = "backward" -> _move_to_prev_word_start(st)
      [] direction = "end" -> _move_to_word_end(st)

RECURSIVE WordSteps(_, _, _)
\* the rest of _move_word's loop after a step that gave r: an exception ends it
WordStepsAfter(r, direction, n) ==
    IF r.raised THEN r ELSE WordSteps(r.st, direction, n)

\* for _ in range(self.repeat_count): one word step
WordSteps(st, direction, n) ==
    IF n <= 0 THEN Ok(st)
    ELSE WordStepsAfter(WordStep(st, direction), direction, n - 1)

_move_cursor(st, direction) ==
    OnBuffer(st, move_cursor(st.buf, direction, st.cp.repeat_count))

_move_word(st, direction) == WordSteps(st, direction, st.cp.repeat_count)

_move_WORD(st, direction) == _move_word(st, direction)

_move_to_line_start(st) ==
    OnBuffer(st, move_to_position(st.buf, line_of(st.buf), 0))

_move_to_first_nonblank(st) ==
    LET current_line == LineAt(st.buf, line_of(st.buf))
    IN  OnBuffer(st, move_to_position(st.buf, line_of(st.buf), SkipSpace(current_line, 0)))

_move_to_line_end(st) ==
    LET current_line == LineAt(st.buf, line_of(st.buf))
    IN  OnBuffer(st, move_to_position(st.buf, line_of(st.buf),
                                      Max(0, Len(current_line) - 1)))

_move_to_last_nonblank(st) ==
    LET current_line == LineAt(st.buf, line_of(st.buf))
    IN  OnBuffer(st, move_to_position(st.buf, line_of(st.buf),
                                      Max(0, BackSpace(current_line, Len(current_line) - 1))))

\* _go_to_line(line_num); -1 stands for the last line
_go_to_line(st, line_num_arg) ==
    LET line_num == IF line_num_arg = -1 THEN get_line_count(st.buf) ELSE line_num_arg
        target_line == Max(0, Min(line_num - 1, get_line_count(st.buf) - 1))
    IN  OnBuffer(st, move_to_position(st.buf, target_line, 0))

_delete_char(st) == OnBuffer(st, delete_char_at_cursor(st.buf))
_delete_char_before(st) == OnBuffer(st, delete_char_before_cursor(st.buf))
_delete_line(st) == OnBuffer(st, delete_line(st.buf, None))
_undo(st) == OnBuffer(st, undo(st.buf))
_redo(st) == OnBuffer(st, redo(st.buf))

_insert_before(st) == OnMode(st, "insert")
_insert_at_line_start(st) == OnMode(_move_to_first_nonblank(st).st, "insert")
_append_after(st) == OnMode(OnBuffer(st, move_cursor(st.buf, "right", 1)).st, "insert")
_append_at_line_end(st) ==
    LET at_end == _move_to_line_end(st).st
    IN  OnMode(OnBuffer(at_end, move_cursor(at_end.buf, "right", 1)).st, "insert")
_open_line_below(st) == OnMode(OnBuffer(st, insert_line_below(st.buf, <<>>)).st, "insert")
_open_line_above(st) == OnMode(OnBuffer(st, insert_line_above(st.buf, <<>>)).st, "insert")

_change_line(st) ==
    LET deleted == delete_line(st.buf, None).buf
    IN  OnMode(OnBuffer(st, insert_line_below(deleted, <<>>)).st, "insert")
_substitute_char(st) == OnMode(OnBuffer(st, delete_char_at_cursor(st.buf)).st, "insert")
_substitute_line(st) ==
    LET line == line_of(st.buf)
    IN  OnMode([st EXCEPT !.buf.lines = ListSet(st.buf.lines, line, <<>>),
                          !.buf.cursor_pos = <<line, 0>>],
               "insert")
_replace_char_mode(st) == OnMode(st, "replace")

_visual(st, target_mode) ==
    OnMode([st EXCEPT !.buf = start_visual_selection(st.buf)], target_mode)

_search(st) ==
    Ok([OnMode(st, "command").st EXCEPT !.cp.command_buffer = <<>>])

\* the keys of normal_commands
NormalCommands ==
    { <<k>> : k \in {"h", "j", "k", "l", "w", "b", "e", "W", "B", "E", "0", "^", "$",
                     "G", "x", "X", "D", "Y", "p", "P", "C", "s", "S", "r", "u", "C-r",
                     "i", "I", "a", "A", "o", "O", "v", "V", "C-v", "/", "?",
                     "n", "N", "*", "#"} }
    \cup { <<"g", "_">>, <<"g", "g">>, <<"d", "d">>, <<"y", "y">>, <<"c", "c">>,
           <<"c", "w">> }

\* the keys of movement_commands
MovementCommands == {"h", "j", "k", "l", "w", "b", "e", "0", "^", "$"}

\* normal_commands[command_str]() and movement_commands[key]()
RunCommand(cmd, st) ==
    CASE cmd = <<"h">> -> _move_cursor(st, "left")
      [] cmd = <<"j">> -> _move_cursor(st, "down")
      [] cmd = <<"k">> -> _move_cursor(st, "up")
      [] cmd = <<"l">> -> _move_cursor(st, "right")
      [] cmd = <<"w">> -> _move_word(st, "forward")
      [] cmd = <<"b">> -> _move_word(st, "backward")
      [] cmd = <<"e">> -> _move_word(st, "end")
      [] cmd = <<"W">> -> _move_WORD(st, "forward")
      [] cmd = <<"B">> -> _move_WORD(st, "backward")
      [] cmd = <<"E">> -> _move_WORD(st, "end")
      [] cmd = <<"0">> -> _move_to_line_start(st)
      [] cmd = <<"^">> -> _move_to_first_nonblank(st)
      [] cmd = <<"$">> -> _move_to_line_end(st)
      [] cmd = <<"g", "_">> -> _move_to_last_nonblank(st)
      [] cmd = <<"g", "g">> -> _go_to_line(st, 1)
      [] cmd = <<"G">> -> _go_to_line(st, -1)
      [] cmd = <<"x">> -> _delete_char(st)
      [] cmd = <<"X">> -> _delete_char_before(st)
      [] cmd = <<"d", "d">> -> _delete_line(st)
      [] cmd \in {<<"D">>, <<"y", "y">>, <<"Y">>, <<"p">>, <<"P">>} -> Ok(st)
      [] cmd = <<"c", "c">> -> _change_line(st)
      [] cmd \in {<<"C">>, <<"c", "w">>} -> OnMode(st, "insert")
      [] cmd = <<"s">> -> _substitute_char(st)
      [] cmd = <<"S">> -> _substitute_line(st)
      [] cmd = <<"r">> -> _replace_char_mode(st)
      [] cmd = <<"u">> -> _undo(st)
      [] cmd = <<"C-r">> -> _redo(st)
      [] cmd = <<"i">> -> _insert_before(st)
      [] cmd = <<"I">> -> _insert_at_line_start(st)
      [] cmd = <<"a">> -> _append_after(st)
      [] cmd = <<"A">> -> _append_at_line_end(st)
      [] cmd = <<"o">> -> _open_line_below(st)
      [] cmd = <<"O">> -> _open_line_above(st)
      [] cmd = <<"v">> -> _visual(st, "visual")
      [] cmd = <<"V">> -> _visual(st, "visual_line")
      [] cmd = <<"C-v">> -> _visual(st, "visual_block")
      [] cmd \in {<<"/">>, <<"?">>} -> _search(st)
      [] cmd \in {<<"n">>, <<"N">>, <<"*">>, <<"#">>} -> Ok(st)

RECURSIVE RepeatCommand(_, _, _)
\* the rest of _execute_command's loop after a call that gave r: an exception
\* ends it
RepeatCommandAfter(cmd, r, n) ==
    IF r.raised THEN r ELSE RepeatCommand(cmd, r.st, n)

\* for _ in range(self.repeat_count): command()
RepeatCommand(cmd, st, n) ==
    IF n <= 0 THEN Ok(st)
    ELSE RepeatCommandAfter(cmd, RunCommand(cmd, st), n - 1)

\* _execute_command once its loop gave r: the except branch, or the history
\* and the CommandResult
ExecutedCommand(st, command_str, r) ==
    IF r.raised
    THEN [st |-> r.st,
          res |-> CommandResult(FALSE, FALSE, "None", FALSE, FALSE, "exception")]
    ELSE [st |-> [r.st EXCEPT
                     !.cp.command_history = Append(r.st.cp.command_history, command_str),
                     !.cp.last_command = command_str],
          res |-> CommandResult(TRUE, FALSE, "None",
                                r.st.buf.cursor_pos # st.buf.cursor_pos, FALSE, "None")]

\* yields [st, res]: the state after the call and the CommandResult
_execute_command(st, command_str) ==
    ExecutedCommand(st, command_str,
                    RepeatCommand(command_str, st, st.cp.repeat_count))

\* int(key) of a digit key
int(key) ==
    CASE key = "0" -> 0 [] key = "1" -> 1 [] key = "2" -> 2 [] key = "3" -> 3
      [] key = "4" -> 4 [] key = "5" -> 5 [] key = "6" -> 6 [] key = "7" -> 7
      [] key = "8" -> 8 [] key = "9" -> 9

\* startswith as it would be if it compared the lengths and not the text
startswith_by_length(s, p) == Len(p) <= Len(s)

\* s.startswith(p)
startswith(s, p) == Len(p) <= Len(s) /\ SubSeq(s, 1, Len(p)) = p

\* a complete command was executed with result done: the command state is
\* reset and the result returned
CompletedCommand(done) ==
    [st |-> [done.st EXCEPT !.cp = _reset_command_state(done.st.cp)], res |-> done.res]

_process_normal_mode_key(st, key) ==
    LET switched == process_command(st.mm, key)
        command_buffer == Append(st.cp.command_buffer, key)
        pending == [st EXCEPT !.cp.command_buffer = command_buffer]
    IN  IF switched.ret
        THEN [st |-> [st EXCEPT !.mm = switched.mm],
              res |-> CommandResult(TRUE, TRUE, switched.mm.current_mode, FALSE, FALSE,
                                    "None")]
        ELSE IF command_buffer \in NormalCommands
        THEN CompletedCommand(_execute_command(pending, command_buffer))
        ELSE IF \E cmd \in NormalCommands : startswith(cmd, command_buffer)
        THEN [st |-> pending,
              res |-> CommandResult(TRUE, FALSE, "None", FALSE, FALSE, "None")]
        ELSE [st |-> [pending EXCEPT !.cp = _reset_command_state(pending.cp)],
              res |-> CommandResult(FALSE, FALSE, "None", FALSE, FALSE, "Unknown command")]

_process_insert_mode_key(st, key) ==
    IF key \in {"Esc", "C-c"}
    THEN [st |-> [st EXCEPT !.mm = switch_mode(st.mm, "normal").mm],
          res |-> CommandResult(TRUE, TRUE, "normal", FALSE, FALSE, "None")]
    ELSE IF key \in {"CR", "\n"}
    THEN [st |-> [st EXCEPT !.buf = insert_text(st.buf, <<"\n">>).buf],
          res |-> CommandResult(TRUE, FALSE, "None", FALSE, TRUE, "None")]
    ELSE IF key \in {"BS", "DEL"}
    THEN LET r == delete_char_before_cursor(st.buf)
         IN  [st |-> [st EXCEPT !.buf = r.buf],
              res |-> CommandResult(r.ret, FALSE, "None", FALSE, r.ret, "None")]
    ELSE IF isprintable(key)
    THEN [st |-> [st EXCEPT !.buf = insert_text(st.buf, <<key>>).buf],
          res |-> CommandResult(TRUE, FALSE, "None", FALSE, TRUE, "None")]
    ELSE [st |-> st,
          res |-> CommandResult(FALSE, FALSE, "None", FALSE, FALSE,
                                "Cannot handle key in insert mode")]

\* a visual mode key that is not Escape; moved is what _execute_command gives
\* for the key, looked at only when the key is a movement
VisualKey(st, key, moved) ==
    LET \* the state the handler works on once the movement branch is passed
        after == IF key \in MovementCommands THEN moved.st ELSE st
        selection == get_visual_selection(after.buf)
    IN  IF key \in MovementCommands /\ moved.res.success
        THEN [st |-> [moved.st EXCEPT !.buf = update_visual_selection(moved.st.buf)],
              res |-> CommandResult(TRUE, FALSE, "None", TRUE, FALSE, "None")]
        ELSE IF key = "d" /\ ~selection.none /\ selection.text # <<>>
        THEN [st |-> [after EXCEPT !.buf = clear_visual_selection(after.buf),
                                   !.mm = switch_mode(after.mm, "normal").mm],
              res |-> CommandResult(TRUE, TRUE, "normal", FALSE, TRUE, "None")]
        ELSE [st |-> after,
              res |-> CommandResult(FALSE, FALSE, "None", FALSE, FALSE,
                                    "not implemented in visual mode")]

_process_visual_mode_key(st, key) ==
    IF key \in {"Esc", "C-c"}
    THEN [st |-> [st EXCEPT !.buf = clear_visual_selection(st.buf),
                            !.mm = switch_mode(st.mm, "normal").mm],
          res |-> CommandResult(TRUE, TRUE, "normal", FALSE, FALSE, "None")]
    ELSE VisualKey(st, key, _execute_command(st, <<key>>))

\* re.match(r's/([^/]*)/([^/]*)/([g]?)', command): "s/", then two more slashes
_execute_substitute(command) ==
    IF Cardinality({i \in 1..Len(command) : command[i] = "/"}) >= 3
    THEN CommandResult(TRUE, FALSE, "None", FALSE, FALSE, "None")
    ELSE CommandResult(FALSE, FALSE, "None", FALSE, FALSE, "Invalid substitute syntax")

_execute_ex_command(command) ==
    IF command = <<>> THEN CommandResult(TRUE, FALSE, "None", FALSE, FALSE, "None")
    ELSE IF command \in {<<"q">>, <<"w">>, <<"w", "q">>}
    THEN CommandResult(TRUE, FALSE, "None", FALSE, FALSE, "None")
    ELSE IF startswith(command, <<"s", "/">>) THEN _execute_substitute(command)
    ELSE CommandResult(FALSE, FALSE, "None", FALSE, FALSE, "Unknown command")

_process_command_mode_key(st, key) ==
    IF key \in {"Esc", "C-c"}
    THEN [st |-> [st EXCEPT !.cp.command_buffer = <<>>,
                            !.mm = switch_mode(st.mm, "normal").mm],
          res |-> CommandResult(TRUE, TRUE, "normal", FALSE, FALSE, "None")]
    ELSE IF key \in {"CR", "\n"}
    THEN [st |-> [st EXCEPT !.cp.command_buffer = <<>>,
                            !.mm = switch_mode(st.mm, "normal").mm],
          res |-> [_execute_ex_command(st.cp.command_buffer) EXCEPT
                      !.mode_changed = TRUE, !.new_mode = "normal"]]
    ELSE IF key \in {"BS", "DEL"}
    THEN [st |-> [st EXCEPT !.cp.command_buffer =
                                IF st.cp.command_buffer # <<>>
                                THEN SubSeq(st.cp.command_buffer, 1,
                                            Len(st.cp.command_buffer) - 1)
                                ELSE st.cp.command_buffer],
          res |-> CommandResult(TRUE, FALSE, "None", FALSE, FALSE, "None")]
    ELSE IF isprintable(key)
    THEN [st |-> [st EXCEPT !.cp.command_buffer = Append(st.cp.command_buffer, key)],
          res |-> CommandResult(TRUE, FALSE, "None", FALSE, FALSE, "None")]
    ELSE [st |-> st,
          res |-> CommandResult(FALSE, FALSE, "None", FALSE, FALSE,
                                "Cannot handle key in command mode")]

\* whether process_key takes the key for the repeat count
IsCountKey(st, key) == isdigit(key) /\ key # "0" /\ st.cp.command_buffer = <<>>

process_key(st, key) ==
    IF IsCountKey(st, key)
    THEN [st |-> [st EXCEPT !.cp.repeat_count = st.cp.repeat_count * 10 + int(key)],
          res |-> CommandResult(TRUE, FALSE, "None", FALSE, FALSE, "None")]
    ELSE IF st.mm.current_mode = "normal" THEN _process_normal_mode_key(st, key)
    ELSE IF st.mm.current_mode = "insert" THEN _process_insert_mode_key(st, key)
    ELSE IF is_visual_mode(st.mm) THEN _process_visual_mode_key(st, key)
    ELSE IF st.mm.current_mode = "command" THEN _process_command_mode_key(st, key)
    ELSE [st |-> st,
          res |-> CommandResult(FALSE, FALSE, "None", FALSE, FALSE, "Mode not implemented")]

(***************************************************************************)
(* Exercise and ExerciseResult (modules/base.py), ExerciseState and        *)
(* ExerciseEngine (features/exercise_engine.py). An Exercise is a record   *)
(* of its expected_commands, initial_text, validation_type,                *)
(* validation_params and hints; an ExerciseResult one of passed, score,    *)
(* hints_used and mistakes_made.                                           *)
(***************************************************************************)
\* ExerciseEngine.current_exercise is None
NoExercise == [active |-> FALSE]

(***************************************************************************)
(* VimSimulator (simulator/simulator.py) and the specifications.           *)
(***************************************************************************)
\* the fields of a new VimSimulator; the display settings are never changed
\* and are left out
VimSimulator ==
    [last_command |-> "", command_count |-> 0, error_message |-> "",
     learning_mode |-> TRUE]

State == [buf |-> buffer, mm |-> mode_manager, cp |-> command_processor]

NoResult == CommandResult(TRUE, FALSE, "None", FALSE, FALSE, "None")

\* the state tracking of process_input after process_key gave res
tracked(sim, key, res) ==
    IF res.success
    THEN [sim EXCEPT !.last_command = key, !.command_count = sim.command_count + 1,
                     !.error_message = ""]
    ELSE [sim EXCEPT !.error_message = IF res.error # "None" THEN res.error
                                       ELSE "Command failed"]

\* a response built with the cursor_position the dataclass has by default
SimulatorResponse_default_cursor(result, st) ==
    [success |-> result.success, error |-> result.error,
     cursor_position |-> <<0, 0>>, mode |-> st.mm.current_mode,
     buffer_content |-> st.buf.lines]

\* the SimulatorResponse process_input builds from the result of process_key
\* and the components as they are by then; message, display_lines and
\* status_line are left out
SimulatorResponse(result, st) ==
    [success |-> result.success, error |-> result.error,
     cursor_position |-> st.buf.cursor_pos, mode |-> st.mm.current_mode,
     buffer_content |-> st.buf.lines]

\* process_input as a function: the simulator [st, sim] after the key, and the
\* key's result in res
Responded(r, sim, key) == [st |-> r.st, sim |-> tracked(sim, key, r.res), res |-> r.res]
input_processed(st, sim, key) == Responded(process_key(st, key), sim, key)

RECURSIVE RunInputs(_, _, _, _, _)
\* the rest of the loop without the break after a failed key
RunInputsAfter_without_break(r, commands, learning_mode, responses) ==
    RunInputs(r.st, r.sim, commands, learning_mode, Append(responses, r.res))

\* the rest of execute_command_sequence's loop after a key that gave r: in
\* learning mode a failed key ends it
RunInputsAfter(r, commands, learning_mode, responses) ==
    IF learning_mode /\ ~r.res.success
    THEN [st |-> r.st, sim |-> r.sim, responses |-> Append(responses, r.res)]
    ELSE RunInputs(r.st, r.sim, commands, learning_mode, Append(responses, r.res))

\* for command in commands: responses.append(self.process_input(command))
RunInputs(st, sim, commands, learning_mode, responses) ==
    IF commands = <<>> THEN [st |-> st, sim |-> sim, responses |-> responses]
    ELSE RunInputsAfter(input_processed(st, sim, Head(commands)), Tail(commands),
                        learning_mode, responses)

\* VimSimulator.execute_command_sequence(commands) of a simulator whose
\* learning_mode is as given: yields [st, sim, responses]
execute_command_sequence(st, sim, commands, learning_mode) ==
    RunInputs(st, sim, commands, learning_mode, <<>>)

\* VimSimulator.get_current_state of a simulator with components st and fields
\* sim; the display settings are never changed and are left out
get_current_state(st, sim) ==
    [buffer_state |-> get_state(st.buf),
     mode_state |-> mode_get_state(st.mm),
     cursor_position |-> st.buf.cursor_pos,
     last_command |-> sim.last_command,
     command_count |-> sim.command_count]

\* VimSimulator.reset(""): yields [st, sim]; learning_mode stays as it is
simulator_reset(sim) ==
    [st |-> [buf |-> VimBuffer(<<>>), mm |-> ModeManager, cp |-> VimCommandProcessor],
     sim |-> [sim EXCEPT !.last_command = "", !.command_count = 0,
                         !.error_message = ""]]

\* VimSimulator.set_learning_mode(enabled); validate_commands of the command
\* processor is read nowhere
set_learning_mode(sim, enabled) == [sim EXCEPT !.learning_mode = enabled]

\* VimSimulator.restore_state once the buffer section gave r: what it raises
\* ends in the except branch, which resets the simulator and returns False
simulator_restored(r, st, sim, state) ==
    IF r.raised
    THEN [st |-> simulator_reset(sim).st, sim |-> simulator_reset(sim).sim, ret |-> FALSE]
    ELSE [st |-> [buf |-> r.buf,
                  mm |-> IF "mode_state" \in DOMAIN state
                         THEN mode_restore_state(st.mm, state.mode_state)
                         ELSE st.mm,
                  cp |-> VimCommandProcessor],
          sim |-> [sim EXCEPT !.last_command = dict_get(state, "last_command", ""),
                              !.command_count = dict_get(state, "command_count", 0)],
          ret |-> TRUE]

\* VimSimulator.restore_state(state) of a dictionary state: yields
\* [st, sim, ret]; the command processor is made anew
simulator_restore_state(st, sim, state) ==
    simulator_restored(IF "buffer_state" \in DOMAIN state
                       THEN restore_state(st.buf, state.buffer_state)
                       ELSE Returned(st.buf, TRUE),
                       st, sim, state)

RECURSIVE RunSequence(_, _)
\* the rest of validate_command_sequence's loop after a key that gave r: a
\* failed key ends it
RunSequenceAfter(r, commands) ==
    IF ~r.res.success THEN [st |-> r.st, valid |-> FALSE]
    ELSE RunSequence(r.st, commands)

\* for command in commands: self.command_processor.process_key(command)
RunSequence(st, commands) ==
    IF commands = <<>> THEN [st |-> st, valid |-> TRUE]
    ELSE RunSequenceAfter(process_key(st, Head(commands)), Tail(commands))

\* the finally clause of validate_command_sequence, once the loop gave run
ValidatedSequence(run, sim, original_state) ==
    [restored |-> simulator_restore_state(run.st, sim, original_state),
     ret |-> run.valid]

\* VimSimulator.validate_command_sequence(commands): yields the simulator
\* after the call, as [st, sim] in restored, and whether the sequence is valid
validate_command_sequence(st, sim, commands) ==
    ValidatedSequence(RunSequence(st, commands), sim, get_current_state(st, sim))

(***************************************************************************)
(* The validators of modules/base.py and features/exercise_engine.py.      *)
(***************************************************************************)
abs(x) == IF x < 0 THEN 0 - x ELSE x

\* ExerciseResult(passed, score, feedback): hints_used and mistakes_made are 0
\* by default, time_taken and feedback are left out
ExerciseResult(passed, score) ==
    [passed |-> passed, score |-> score, hints_used |-> 0, mistakes_made |-> 0]

\* the ExerciseResult the engine builds for the exercise in progress
EngineResult(passed, score, exercise_state) ==
    [passed |-> passed, score |-> score, hints_used |-> exercise_state.hints_used,
     mistakes_made |-> exercise_state.mistakes_made]

RECURSIVE correct_count(_, _, _)
\* the loops of both _validate_commands: the commands from index i (0-indexed)
\* on that are equal in both lists, up to the first that differs or is missing
correct_count(executed, expected, i) ==
    IF i < Len(executed) /\ i < Len(expected) /\ executed[i + 1] = expected[i + 1]
    THEN 1 + correct_count(executed, expected, i + 1)
    ELSE 0

\* int((correct_count / len(expected)) * 100): the float product truncated; it
\* is the integer quotient for every length below 50
score_of(count, length) == (count * 100) \div length

\* ExerciseEngine._validate_commands(exercise, state, exercise_state)
engine_validate_commands(exercise, state, exercise_state) ==
    LET executed == state.commands_executed
        expected == exercise.expected_commands
    IN  IF executed = expected THEN EngineResult(TRUE, 100, exercise_state)
        ELSE IF /\ Len(executed) <= Len(expected)
                /\ correct_count(executed, expected, 0) = Len(executed)
        THEN EngineResult(FALSE, score_of(correct_count(executed, expected, 0),
                                          Len(expected)), exercise_state)
        ELSE EngineResult(FALSE, 0, exercise_state)

\* _validate_cursor_position as it would be if the score fell by 10 for each
\* line or column of distance beyond the first
engine_validate_cursor_position_generous(exercise, state, exercise_state) ==
    LET expected_pos == dict_get(exercise.validation_params, "expected_position", <<0, 0>>)
        actual_pos == state.cursor_position
        total_diff == abs(actual_pos[1] - expected_pos[1])
                      + abs(actual_pos[2] - expected_pos[2])
    IN  IF actual_pos = expected_pos THEN EngineResult(TRUE, 100, exercise_state)
        ELSE EngineResult(FALSE, Max(0, 100 - ((total_diff - 1) * 10)), exercise_state)

\* ExerciseEngine._validate_cursor_position(exercise, state, exercise_state)
engine_validate_cursor_position(exercise, state, exercise_state) ==
    LET expected_pos == dict_get(exercise.validation_params, "expected_position", <<0, 0>>)
        actual_pos == state.cursor_position
        line_diff == abs(actual_pos[1] - expected_pos[1])
        col_diff == abs(actual_pos[2] - expected_pos[2])
        total_diff == line_diff + col_diff
    IN  IF actual_pos = expected_pos THEN EngineResult(TRUE, 100, exercise_state)
        ELSE EngineResult(FALSE, Max(0, 100 - (total_diff * 10)), exercise_state)

\* Exercise._validate_commands(executed_commands): yields [result, raised];
\* the division raises ZeroDivisionError when nothing is expected
exercise_validate_commands(exercise, executed_commands) ==
    IF executed_commands = exercise.expected_commands
    THEN [result |-> ExerciseResult(TRUE, 100), raised |-> FALSE]
    ELSE IF exercise.expected_commands = <<>>
    THEN [result |-> ExerciseResult(FALSE, 0), raised |-> TRUE]
    ELSE LET score == score_of(correct_count(executed_commands,
                                             exercise.expected_commands, 0),
                               Len(exercise.expected_commands))
         IN  [result |-> ExerciseResult(score >= 70, score), raised |-> FALSE]

\* Exercise._validate_cursor_position(final_state)
exercise_validate_cursor_position(exercise, final_state) ==
    IF dict_get(final_state, "cursor_position", <<0, 0>>)
           = dict_get(exercise.validation_params, "expected_position", <<0, 0>>)
    THEN ExerciseResult(TRUE, 100)
    ELSE ExerciseResult(FALSE, 0)

RECURSIVE lstrip(_)
lstrip(text) == IF text # <<>> /\ isspace(Head(text)) THEN lstrip(Tail(text)) ELSE text

RECURSIVE rstrip(_)
rstrip(text) ==
    IF text # <<>> /\ isspace(text[Len(text)]) THEN rstrip(SubSeq(text, 1, Len(text) - 1))
    ELSE text

\* text.strip()
strip(text) == rstrip(lstrip(text))

\* Exercise._validate_text_content(final_state)
exercise_validate_text_content(exercise, final_state) ==
    IF strip(dict_get(final_state, "buffer_content", <<>>))
           = strip(dict_get(exercise.validation_params, "expected_text", <<>>))
    THEN ExerciseResult(TRUE, 100)
    ELSE ExerciseResult(FALSE, 0)

\* Exercise.validate_completion(executed_commands, final_state): yields
\* [result, raised]
validate_completion(exercise, executed_commands, final_state) ==
    IF exercise.validation_type = "commands"
    THEN exercise_validate_commands(exercise, executed_commands)
    ELSE IF exercise.validation_type = "cursor_position"
    THEN [result |-> exercise_validate_cursor_position(exercise, final_state),
          raised |-> FALSE]
    ELSE IF exercise.validation_type = "text_content"
    THEN [result |-> exercise_validate_text_content(exercise, final_state),
          raised |-> FALSE]
    ELSE [result |-> ExerciseResult(FALSE, 0), raised |-> FALSE]

(***************************************************************************)
(* ExerciseEngine (features/exercise_engine.py). An operation takes the    *)
(* simulator's components st, its fields sim and the ExerciseState         *)
(* exercise_state, and yields them as [st, sim, ce] with what it returned. *)
(***************************************************************************)
\* the ExerciseState start_exercise creates; session and start_time are left
\* out: the session only collects the results of _record_completion
ExerciseState(exercise) ==
    [active |-> TRUE, exercise |-> exercise, commands_executed |-> <<>>,
     hints_used |-> 0, mistakes_made |-> 0, current_hint_index |-> 0,
     is_completed |-> FALSE]

\* the rest of start_exercise after self.simulator.reset() gave r
ExerciseStarted(r, exercise) ==
    [st |-> IF exercise.initial_text # <<>>
            THEN [r.st EXCEPT !.buf = set_content(r.st.buf, exercise.initial_text).buf]
            ELSE r.st,
     sim |-> r.sim,
     ce |-> ExerciseState(exercise)]

\* ExerciseEngine.start_exercise(exercise, session)
start_exercise(sim, exercise) == ExerciseStarted(simulator_reset(sim), exercise)

\* the state dictionary of _check_completion: yields [state, raised]; reading
\* self.simulator.buffer.mode raises AttributeError when the buffer has no
\* attribute mode, and a VimBuffer has none
completion_state(st, exercise_state) ==
    IF "mode" \notin DOMAIN st.buf
    THEN [state |-> [cursor_position |-> st.buf.cursor_pos], raised |-> TRUE]
    ELSE [state |-> [cursor_position |-> st.buf.cursor_pos,
                     buffer_content |-> get_content(st.buf),
                     current_mode |-> st.buf.mode,
                     commands_executed |-> exercise_state.commands_executed],
          raised |-> FALSE]

\* no ExerciseResult
NoExerciseResult == [none |-> TRUE]

\* the validator of _check_completion applied to the state dictionary; the
\* validators of text_content, mode_state and custom are not modelled, no
\* exercise explored has these types
Validated(exercise, state, exercise_state) ==
    IF exercise.validation_type = "commands"
    THEN engine_validate_commands(exercise, state, exercise_state)
    ELSE IF exercise.validation_type = "cursor_position"
    THEN engine_validate_cursor_position(exercise, state, exercise_state)
    ELSE NoExerciseResult

\* the rest of _check_completion after the state dictionary cs
CompletionChecked(cs, exercise_state) ==
    IF cs.raised THEN [ce |-> exercise_state, result |-> NoExerciseResult, raised |-> TRUE]
    ELSE LET result == Validated(exercise_state.exercise, cs.state, exercise_state)
         IN  [ce |-> IF result # NoExerciseResult /\ result.passed
                     THEN [exercise_state EXCEPT !.is_completed = TRUE]
                     ELSE exercise_state,
              result |-> result, raised |-> FALSE]

\* ExerciseEngine._check_completion(): yields [ce, result, raised]
_check_completion(st, exercise_state) ==
    IF ~exercise_state.active
    THEN [ce |-> exercise_state, result |-> NoExerciseResult, raised |-> FALSE]
    ELSE CompletionChecked(completion_state(st, exercise_state), exercise_state)

\* tracked_command as it would be if only the last command were compared
tracked_last_command(exercise_state, command) ==
    LET commands_executed == Append(exercise_state.commands_executed, command)
        expected == exercise_state.exercise.expected_commands
    IN  [exercise_state EXCEPT
            !.commands_executed = commands_executed,
            !.mistakes_made =
                IF \/ Len(commands_executed) > Len(expected)
                   \/ expected[Len(commands_executed)] # command
                THEN @ + 1 ELSE @]

\* self.current_exercise.commands_executed.append(command) and the count of
\* mistakes of execute_command
tracked_command(exercise_state, command) ==
    LET commands_executed == Append(exercise_state.commands_executed, command)
        expected_so_far == SubSeq(exercise_state.exercise.expected_commands, 1,
                                  Min(Len(commands_executed),
                                      Len(exercise_state.exercise.expected_commands)))
    IN  [exercise_state EXCEPT
            !.commands_executed = commands_executed,
            !.mistakes_made = IF commands_executed # expected_so_far THEN @ + 1 ELSE @]

\* the ExerciseExecutionResult of execute_command
ExerciseExecutionResult(success, response, checked) ==
    [success |-> success, simulator_response |-> response,
     is_completed |-> checked.result # NoExerciseResult /\ checked.result.passed,
     completion_result |-> checked.result]

\* the end of execute_command: r is the simulator after process_input,
\* checked what _check_completion gave
CommandExecuted(r, checked) ==
    [st |-> r.st, sim |-> r.sim, ce |-> checked.ce, raised |-> checked.raised,
     result |-> ExerciseExecutionResult(~checked.raised, SimulatorResponse(r.res, r.st),
                                        checked)]

\* the rest of execute_command after self.simulator.process_input(command)
\* gave r
CommandProcessed(r, exercise_state, command) ==
    CommandExecuted(r, _check_completion(r.st, tracked_command(exercise_state, command)))

\* ExerciseEngine.execute_command(command): yields [st, sim, ce, raised, result]
execute_command(st, sim, exercise_state, command) ==
    IF ~exercise_state.active
    THEN [st |-> st, sim |-> sim, ce |-> exercise_state, raised |-> FALSE,
          result |-> [success |-> FALSE, simulator_response |-> None,
                      is_completed |-> FALSE, completion_result |-> NoExerciseResult]]
    ELSE CommandProcessed(input_processed(st, sim, command), exercise_state, command)

\* get_hint as it would be if the last hint were given again and again
get_hint_repeating(exercise_state) ==
    IF ~exercise_state.active THEN [ce |-> exercise_state, ret |-> None]
    ELSE IF exercise_state.exercise.hints # <<>>
    THEN [ce |-> [exercise_state EXCEPT
                     !.current_hint_index = Min(@ + 1, Len(exercise_state.exercise.hints)),
                     !.hints_used = @ + 1],
          ret |-> exercise_state.exercise.hints[
                      Min(exercise_state.current_hint_index + 1,
                          Len(exercise_state.exercise.hints))]]
    ELSE [ce |-> exercise_state, ret |-> None]

\* ExerciseEngine.get_hint(): yields [ce, ret]
get_hint(exercise_state) ==
    IF ~exercise_state.active THEN [ce |-> exercise_state, ret |-> None]
    ELSE IF exercise_state.current_hint_index < Len(exercise_state.exercise.hints)
    THEN [ce |-> [exercise_state EXCEPT !.current_hint_index = @ + 1,
                                        !.hints_used = @ + 1],
          ret |-> exercise_state.exercise.hints[exercise_state.current_hint_index + 1]]
    ELSE [ce |-> exercise_state, ret |-> None]

Construct(content) ==
    /\ buffer = VimBuffer(content)
    /\ mode_manager = ModeManager
    /\ command_processor = VimCommandProcessor
    /\ simulator = VimSimulator
    /\ last = [op |-> "init", arg |-> content, ret |-> TRUE, raised |-> FALSE,
               res |-> NoResult]
    /\ pre = [buf |-> VimBuffer(content), mm |-> ModeManager, cp |-> VimCommandProcessor]
    /\ calls = 0
    /\ current_exercise = NoExercise

\* the initial contents of the simulators explored
InitialContents == { <<>>, <<"a", "b">>, <<"a", ".", "\n", "b", " ", "c">> }

\* the keys pressed
Keys == {"h", "j", "l", "w", "b", "x", "X", "d", "u", "C-r", "i", "v", "V", "C-v", ":",
         "R", "r", "Esc", "CR", "BS", "2"}

\* VimSimulator.process_input(key); its except branch is not reached: what a
\* command raises is caught in _execute_command
process_input(key) ==
    \E r \in {process_key(State, key)} :
        /\ buffer' = r.st.buf
        /\ mode_manager' = r.st.mm
        /\ command_processor' = r.st.cp
        /\ simulator' = tracked(simulator, key, r.res)
        /\ last' = [op |-> "process_input", arg |-> key, ret |-> r.res.success,
                    raised |-> FALSE, res |-> r.res,
                    response |-> SimulatorResponse(r.res, r.st)]
        /\ pre' = State
        /\ calls' = calls + 1
        /\ UNCHANGED current_exercise

KeyPress ==
    /\ calls < MaxKeys
    /\ \E key \in Keys :
          /\ IsCountKey(State, key) =>
                 command_processor.repeat_count * 10 + int(key) <= MaxRepeat
          /\ process_input(key)

Init == \E content \in InitialContents : Construct(content)

Next == KeyPress

Spec == Init /\ [][Next]_vars

(***************************************************************************)
(* The buffer on its own: the calls a client of VimBuffer can make.        *)
(***************************************************************************)
Texts == { <<"a">>, <<"b", "\n", "c">>, <<>> }
LineNumbers == { None, <<0>>, <<7>> }
LineContents == { <<>>, <<"x">> }
Contents == { <<>>, <<"c", "\n", "d">> }
Directions == {"left", "right", "up", "down"}

\* the operations that take a snapshot and change the buffer
MutatingOps == {"insert_text", "delete_char_at_cursor", "delete_char_before_cursor",
                "delete_line", "insert_line_below", "insert_line_above", "set_content"}

\* a call of a VimBuffer method; what it raises reaches the caller
BufferCall(op, arg, r) ==
    /\ calls < MaxBufferCalls
    /\ buffer' = r.buf
    /\ last' = [op |-> op, arg |-> arg, ret |-> r.ret, raised |-> r.raised,
                res |-> NoResult]
    /\ pre' = State
    /\ calls' = calls + 1
    /\ UNCHANGED current_exercise
    /\ UNCHANGED <<mode_manager, command_processor, simulator>>

InsertText == \E text \in Texts : BufferCall("insert_text", text, insert_text(buffer, text))
DeleteCharAtCursor ==
    BufferCall("delete_char_at_cursor", None, delete_char_at_cursor(buffer))
DeleteCharBeforeCursor ==
    BufferCall("delete_char_before_cursor", None, delete_char_before_cursor(buffer))
DeleteLine == \E n \in LineNumbers : BufferCall("delete_line", n, delete_line(buffer, n))
InsertLineBelow ==
    \E c \in LineContents : BufferCall("insert_line_below", c, insert_line_below(buffer, c))
InsertLineAbove ==
    \E c \in LineContents : BufferCall("insert_line_above", c, insert_line_above(buffer, c))
SetContent == \E c \in Contents : BufferCall("set_content", c, set_content(buffer, c))
MoveCursor ==
    \E d \in Directions : BufferCall("move_cursor", d, move_cursor(buffer, d, 1))
Undo == BufferCall("undo", None, undo(buffer))
Redo == BufferCall("redo", None, redo(buffer))

NextBuffer ==
    \/ InsertText
    \/ DeleteCharAtCursor
    \/ DeleteCharBeforeCursor
    \/ DeleteLine
    \/ InsertLineBelow
    \/ InsertLineAbove
    \/ SetContent
    \/ MoveCursor
    \/ Undo
    \/ Redo

InitBuffer == \E content \in { <<>>, <<"a", "b">> } : Construct(content)

SpecBuffer == InitBuffer /\ [][NextBuffer]_vars

(***************************************************************************)
(* The undo limit: single-character insertions into a fresh buffer, then   *)
(* undo() over and over.                                                   *)
(***************************************************************************)
Insertions == max_undo_levels + 5

InsertChar ==
    /\ calls < Insertions
    /\ \E c \in {"a", "b"} :
          \E r \in {insert_text(buffer, <<c>>)} :
             /\ buffer' = r.buf
             /\ last' = [op |-> "insert_text", arg |-> <<c>>, ret |-> r.ret,
                         raised |-> r.raised, res |-> NoResult]
    /\ pre' = State
    /\ calls' = calls + 1
    /\ UNCHANGED current_exercise
    /\ UNCHANGED <<mode_manager, command_processor, simulator>>

UndoAgain ==
    /\ calls >= Insertions
    /\ calls < Insertions + max_undo_levels + 2
    /\ \E r \in {undo(buffer)} :
          /\ buffer' = r.buf
          /\ last' = [op |-> "undo", arg |-> None, ret |-> r.ret, raised |-> r.raised,
                      res |-> NoResult]
    /\ pre' = State
    /\ calls' = calls + 1
    /\ UNCHANGED current_exercise
    /\ UNCHANGED <<mode_manager, command_processor, simulator>>

NextUndoLimit == InsertChar \/ UndoAgain

SpecUndoLimit == InitBuffer /\ [][NextUndoLimit]_vars

(***************************************************************************)
(* The mode manager on its own.                                            *)
(***************************************************************************)
ModeTokens == {"i", "v", "V", "C-v", ":", "R", "Esc", "x"}

ModeCall(op, arg, r) ==
    /\ calls < MaxModeCalls
    /\ mode_manager' = r.mm
    /\ last' = [op |-> op, arg |-> arg, ret |-> r.ret, raised |-> FALSE, res |-> NoResult]
    /\ pre' = State
    /\ calls' = calls + 1
    /\ UNCHANGED current_exercise
    /\ UNCHANGED <<buffer, command_processor, simulator>>

SwitchMode ==
    \E t \in VimMode : ModeCall("switch_mode", t, switch_mode(mode_manager, t))
ProcessCommand ==
    \E c \in ModeTokens : ModeCall("process_command", c, process_command(mode_manager, c))
Reset == ModeCall("reset", None, [mm |-> mode_reset(mode_manager), ret |-> TRUE])

NextModes == SwitchMode \/ ProcessCommand \/ Reset

InitModes == Construct(<<>>)

SpecModes == InitModes /\ [][NextModes]_vars

(***************************************************************************)
(* The simulator facade: keys through process_input, and the calls that    *)
(* save and restore the simulator's state.                                 *)
(***************************************************************************)
\* the whole simulator, as the calls of the facade find it
Session == [buf |-> buffer, mm |-> mode_manager, cp |-> command_processor,
            sim |-> simulator]

\* the keys pressed between the calls
SessionKeys == {"l", "d", "x", "i", "Esc", "v", "u"}

\* the sequences handed to validate_command_sequence: valid ones, one with an
\* unknown key, one that fails in the middle
CommandSequences ==
    { <<>>, <<"x">>, <<"d", "d">>, <<"z">>, <<"i", "a", "Esc">>, <<"x", "z", "x">>,
      <<"3">>, <<"2", "5">> }

\* a call is made while the repeat count built up so far is at most MaxRepeat
SessionKey ==
    /\ calls < MaxSessionCalls
    /\ command_processor.repeat_count <= MaxRepeat
    /\ \E key \in SessionKeys : process_input(key)

ValidateCommandSequence ==
    /\ calls < MaxSessionCalls
    /\ command_processor.repeat_count <= MaxRepeat
    /\ \E commands \in CommandSequences :
       \E r \in {validate_command_sequence(State, simulator, commands)} :
          /\ buffer' = r.restored.st.buf
          /\ mode_manager' = r.restored.st.mm
          /\ command_processor' = r.restored.st.cp
          /\ simulator' = r.restored.sim
          /\ last' = [op |-> "validate_command_sequence", arg |-> commands,
                      ret |-> r.ret, raised |-> FALSE, res |-> NoResult]
          /\ pre' = Session
          /\ calls' = calls + 1
          /\ UNCHANGED current_exercise

\* learning_mode is True from the constructor on (simulator.py:57), until
\* set_learning_mode is called
ExecuteCommandSequence ==
    /\ calls < MaxSessionCalls
    /\ command_processor.repeat_count <= MaxRepeat
    /\ \E commands \in CommandSequences :
       \E r \in {execute_command_sequence(State, simulator, commands,
                                          simulator.learning_mode)} :
          /\ buffer' = r.st.buf
          /\ mode_manager' = r.st.mm
          /\ command_processor' = r.st.cp
          /\ simulator' = r.sim
          /\ last' = [op |-> "execute_command_sequence", arg |-> commands,
                      ret |-> \A i \in 1..Len(r.responses) : r.responses[i].success,
                      raised |-> FALSE,
                      res |-> IF r.responses = <<>> THEN NoResult
                              ELSE r.responses[Len(r.responses)],
                      responses |-> r.responses]
          /\ pre' = Session
          /\ calls' = calls + 1
          /\ UNCHANGED current_exercise

NextSimulator == SessionKey \/ ValidateCommandSequence \/ ExecuteCommandSequence

SpecSimulator == Init /\ [][NextSimulator]_vars

(***************************************************************************)
(* Commands under a repeat count, on a line longer than the smallest count *)
(* the digit keys can build up.                                            *)
(***************************************************************************)
LongLine == <<"a", "b", "c", "d", "e", "f", "g", "h", "i", "j", "k", "l", "m", "n">>

CountedKeys == {"1", "l", "h", "x", "X", "w", "b", "d", "$"}

CountedKey ==
    /\ calls < MaxCountedKeys
    /\ \E key \in CountedKeys :
          /\ IsCountKey(State, key) =>
                 command_processor.repeat_count * 10 + int(key) <= MaxRepeat
          /\ process_input(key)

InitRepeat == Construct(LongLine)

NextRepeat == CountedKey

SpecRepeat == InitRepeat /\ [][NextRepeat]_vars

(***************************************************************************)
(* The commands typed in Normal mode: the multi-key commands, the keys     *)
(* that enter Insert mode, the change commands and the visual modes.       *)
(***************************************************************************)
CommandContents == { <<"a", "b">>, <<" ", "a", "b", "\n", "c">> }

CommandKeys == {"d", "g", "_", "y", "c", "w", "l", "j", "Esc", "i", "I", "a", "A", "o",
                "O", "C", "s", "S", "v", "V", "C-v"}

CommandKey ==
    /\ calls < MaxCommandKeys
    /\ \E key \in CommandKeys : process_input(key)

InitCommands == \E content \in CommandContents : Construct(content)

NextCommands == CommandKey

SpecCommands == InitCommands /\ [][NextCommands]_vars

(***************************************************************************)
(* Word motions on lines whose tokens hold punctuation.                    *)
(***************************************************************************)
WordContents ==
    { <<"h", "e", "l", "l", "o", ".", "w", "o", "r", "l", "d", " ", "f", "o", "o">>,
      <<"a", "b", ".", "c", " ", " ", "d", "\n", "e", ".", "f", " ", "g">> }

WordKeys == {"w", "W", "b", "B", "e", "E", "0", "$", "j", "k"}

WordKey ==
    /\ calls < MaxWordKeys
    /\ \E key \in WordKeys : process_input(key)

InitWords == \E content \in WordContents : Construct(content)

NextWords == WordKey

SpecWords == InitWords /\ [][NextWords]_vars

(***************************************************************************)
(* The responses of process_input, to keys that work, keys that fail and   *)
(* keys whose command raises.                                              *)
(***************************************************************************)
ResponseKeys == {"x", "l", "j", "d", "u", "C-r", "i", "a", "Esc", "z", "v"}

ResponseKey ==
    /\ calls < MaxResponseKeys
    /\ \E key \in ResponseKeys : process_input(key)

InitResponses == \E content \in { <<>>, <<"a", "b", "\n", "c">> } : Construct(content)

NextResponses == ResponseKey

SpecResponses == InitResponses /\ [][NextResponses]_vars

(***************************************************************************)
(* restore_state of the simulator with states that are well formed and     *)
(* states that are not, between keys.                                      *)
(***************************************************************************)
\* buffer sections: a well-formed one, an empty lines list, cursors that are
\* not pairs, cursors outside the lines, no lines entry, no entry at all
SavedBufferStates ==
    { [lines |-> << <<"a", "b">>, <<"c">> >>, cursor_pos |-> <<1, 1>>,
       visual_start |-> None, visual_end |-> None, modified |-> TRUE, filename |-> None],
      [lines |-> <<>>, cursor_pos |-> <<0, 0>>],
      [lines |-> << <<"a">> >>, cursor_pos |-> <<0>>],
      [lines |-> << <<"a">> >>, cursor_pos |-> <<0, 0, 0>>],
      [lines |-> << <<"a">> >>, cursor_pos |-> <<7, 9>>],
      [lines |-> << <<"a">> >>, cursor_pos |-> <<-1, -2>>],
      [cursor_pos |-> <<0, 3>>],
      [modified |-> TRUE] }

\* mode sections: well-formed ones, unknown tags in each place, missing entries
SavedModeStates ==
    { [current_mode |-> "insert", previous_mode |-> "normal",
       mode_history |-> <<"normal", "insert">>],
      [current_mode |-> "bogus", previous_mode |-> "insert", mode_history |-> <<"insert">>],
      [current_mode |-> "insert", previous_mode |-> "bogus", mode_history |-> <<"insert">>],
      [current_mode |-> "insert", previous_mode |-> "normal",
       mode_history |-> <<"normal", "bogus">>],
      [current_mode |-> "visual"] }

\* the states handed to restore_state: with both sections, with one, with none
SavedStates ==
    { [buffer_state |-> b, mode_state |-> m, last_command |-> "x", command_count |-> 3] :
         b \in SavedBufferStates, m \in SavedModeStates }
    \cup { [buffer_state |-> b] : b \in SavedBufferStates }
    \cup { [mode_state |-> m, command_count |-> 2] : m \in SavedModeStates }
    \cup { [last_command |-> "x"] }

RestoreKeys == {"l", "d", "i"}

RestoreKey ==
    /\ calls < MaxRestoreCalls
    /\ \E key \in RestoreKeys : process_input(key)

\* a call of VimSimulator.restore_state(state): it catches what it raises
RestoreState ==
    /\ calls < MaxRestoreCalls
    /\ \E state \in SavedStates :
       \E r \in {simulator_restore_state(State, simulator, state)} :
          /\ buffer' = r.st.buf
          /\ mode_manager' = r.st.mm
          /\ command_processor' = r.st.cp
          /\ simulator' = r.sim
          /\ last' = [op |-> "restore_state", arg |-> state, ret |-> r.ret,
                      raised |-> FALSE, res |-> NoResult]
          /\ pre' = Session
          /\ calls' = calls + 1
          /\ UNCHANGED current_exercise

InitRestore == Construct(<<"a", "b">>)

NextRestore == RestoreKey \/ RestoreState

SpecRestore == InitRestore /\ [][NextRestore]_vars

(***************************************************************************)
(* The mode manager's state saved and restored, between mode switches.     *)
(***************************************************************************)
\* a switch_mode call of this specification
SwitchBetween == calls < MaxModeStateCalls /\ SwitchMode

\* get_state() of the manager restored into a fresh ModeManager, which then
\* takes the manager's place
RestoreIntoFresh ==
    /\ calls < MaxModeStateCalls
    /\ \E state \in {mode_get_state(mode_manager)} :
          ModeCall("get_state", state,
                   [mm |-> mode_restore_state(ModeManager, state), ret |-> TRUE])

\* ModeManager.restore_state(state) with a state from outside
RestoreModeState ==
    /\ calls < MaxModeStateCalls
    /\ \E state \in SavedModeStates :
          ModeCall("restore_state", state,
                   [mm |-> mode_restore_state(mode_manager, state), ret |-> TRUE])

NextModeStates == SwitchBetween \/ RestoreIntoFresh \/ RestoreModeState

SpecModeStates == InitModes /\ [][NextModeStates]_vars

(***************************************************************************)
(* Key sequences run with learning mode on and off.                        *)
(***************************************************************************)
SetLearningMode ==
    /\ calls < MaxSessionCalls
    /\ \E enabled \in BOOLEAN :
          /\ simulator' = set_learning_mode(simulator, enabled)
          /\ last' = [op |-> "set_learning_mode", arg |-> enabled, ret |-> TRUE,
                      raised |-> FALSE, res |-> NoResult]
    /\ pre' = Session
    /\ calls' = calls + 1
    /\ UNCHANGED current_exercise
    /\ UNCHANGED <<buffer, mode_manager, command_processor>>

InitSequences == Construct(<<"a", "b", "c">>)

NextSequences == SetLearningMode \/ ExecuteCommandSequence

SpecSequences == InitSequences /\ [][NextSequences]_vars

(***************************************************************************)
(* Substitute commands typed on the command line.                          *)
(***************************************************************************)
\* the substitutions typed: old, new and whether the g flag is given
SubstituteCommands ==
    { [old |-> <<"a">>, new |-> <<"b">>, g |-> FALSE],
      [old |-> <<"a">>, new |-> <<"b">>, g |-> TRUE],
      [old |-> <<"a", "b">>, new |-> <<>>, g |-> FALSE],
      [old |-> <<"c">>, new |-> <<"a", "c">>, g |-> TRUE] }

\* s/old/new/ or s/old/new/g
SubstituteText(c) ==
    <<"s", "/">> \o c.old \o <<"/">> \o c.new \o <<"/">> \o
    (IF c.g THEN <<"g">> ELSE <<>>)

\* the keys that go on typing one of the substitutions, Enter at its end, and
\* j and : in Normal mode
SubstituteKey ==
    /\ calls < MaxSubstituteKeys
    /\ \E key \in {"j", ":", "s", "/", "a", "b", "c", "g", "CR", "Esc"} :
          /\ mode_manager.current_mode = "normal" => key \in {"j", ":"}
          /\ mode_manager.current_mode = "command" =>
                \/ key = "Esc"
                \/ /\ key = "CR"
                   /\ \E c \in SubstituteCommands :
                         command_processor.command_buffer = SubstituteText(c)
                \/ \E c \in SubstituteCommands :
                      startswith(SubstituteText(c),
                                 Append(command_processor.command_buffer, key))
          /\ process_input(key)

InitSubstitute == Construct(<<"a", "a", "b", "\n", "c", "a", "b", "c", "a">>)

NextSubstitute == SubstituteKey

SpecSubstitute == InitSubstitute /\ [][NextSubstitute]_vars

(***************************************************************************)
(* Counts and operators typed before and after a change of mode.           *)
(***************************************************************************)
PendingKeys == {"1", "d", "i", "v", "Esc", "x"}

PendingKey ==
    /\ calls < MaxPendingKeys
    /\ \E key \in PendingKeys :
          /\ IsCountKey(State, key) =>
                 command_processor.repeat_count * 10 + int(key) <= MaxRepeat
          /\ process_input(key)

InitPending == Construct(LongLine)

NextPending == PendingKey

SpecPending == InitPending /\ [][NextPending]_vars

(***************************************************************************)
(* Exercises run by the ExerciseEngine.                                    *)
(***************************************************************************)
\* the exercises started: one validated by its commands, one by the cursor
\* position, one without initial text, one whose expected position is far
\* beyond the text
Exercises ==
    { [expected_commands |-> <<"l", "l", "l">>, initial_text |-> <<"a", "b", "c", "d">>,
       validation_type |-> "commands", validation_params |-> [none |-> TRUE],
       hints |-> <<"h1", "h2">>],
      [expected_commands |-> <<"j", "l">>, initial_text |-> <<"a", "b", "\n", "c", "d">>,
       validation_type |-> "cursor_position",
       validation_params |-> [expected_position |-> <<1, 1>>],
       hints |-> <<"h1">>],
      [expected_commands |-> <<"x">>, initial_text |-> <<>>,
       validation_type |-> "commands", validation_params |-> [none |-> TRUE],
       hints |-> <<>>],
      [expected_commands |-> <<"j">>, initial_text |-> <<"a", "\n", "b">>,
       validation_type |-> "cursor_position",
       validation_params |-> [expected_position |-> <<11, 0>>],
       hints |-> <<>>] }

ExerciseKeys == {"l", "j", "x", "u"}

\* the simulator and the engine before a call
EngineSession == [buf |-> buffer, mm |-> mode_manager, cp |-> command_processor,
                  sim |-> simulator, ce |-> current_exercise]

StartExercise ==
    /\ calls < MaxExerciseCalls
    /\ \E exercise \in Exercises :
          \E r \in {start_exercise(simulator, exercise)} :
              /\ buffer' = r.st.buf
              /\ mode_manager' = r.st.mm
              /\ command_processor' = r.st.cp
              /\ simulator' = r.sim
              /\ current_exercise' = r.ce
              /\ last' = [op |-> "start_exercise", arg |-> exercise, ret |-> TRUE,
                          raised |-> FALSE, res |-> NoResult]
    /\ pre' = EngineSession
    /\ calls' = calls + 1

ExecuteCommand ==
    /\ calls < MaxExerciseCalls
    /\ \E command \in ExerciseKeys :
          \E r \in {execute_command(State, simulator, current_exercise, command)} :
              /\ buffer' = r.st.buf
              /\ mode_manager' = r.st.mm
              /\ command_processor' = r.st.cp
              /\ simulator' = r.sim
              /\ current_exercise' = r.ce
              /\ last' = [op |-> "execute_command", arg |-> command, ret |-> ~r.raised,
                          raised |-> r.raised, res |-> NoResult, result |-> r.result]
    /\ pre' = EngineSession
    /\ calls' = calls + 1

GetHint ==
    /\ calls < MaxExerciseCalls
    /\ \E r \in {get_hint(current_exercise)} :
          /\ current_exercise' = r.ce
          /\ last' = [op |-> "get_hint", arg |-> None, ret |-> r.ret, raised |-> FALSE,
                      res |-> NoResult]
    /\ pre' = EngineSession
    /\ calls' = calls + 1
    /\ UNCHANGED <<buffer, mode_manager, command_processor, simulator>>

\* the state dictionary of _check_completion without the mode
ValidatorState ==
    [cursor_position |-> buffer.cursor_pos,
     buffer_content |-> get_content(buffer),
     commands_executed |-> current_exercise.commands_executed]

\* a validator was applied and gave result
ValidatorCall(name, result, raised) ==
    /\ calls < MaxExerciseCalls
    /\ last' = [op |-> name, arg |-> ValidatorState, ret |-> ~raised, raised |-> raised,
                res |-> NoResult, result |-> result]
    /\ pre' = EngineSession
    /\ calls' = calls + 1
    /\ UNCHANGED <<buffer, mode_manager, command_processor, simulator, current_exercise>>

\* the validators applied to the exercise in progress as it is by now
ValidateCommands ==
    /\ current_exercise.active
    /\ ValidatorCall("_validate_commands",
                     engine_validate_commands(current_exercise.exercise, ValidatorState,
                                              current_exercise),
                     FALSE)

ValidateCursorPosition ==
    /\ current_exercise.active
    /\ ValidatorCall("_validate_cursor_position",
                     engine_validate_cursor_position(current_exercise.exercise,
                                                     ValidatorState, current_exercise),
                     FALSE)

ValidateCompletion ==
    /\ current_exercise.active
    /\ \E r \in {validate_completion(current_exercise.exercise,
                                      current_exercise.commands_executed,
                                      ValidatorState)} :
          ValidatorCall("validate_completion", r.result, r.raised)

InitExercise == Construct(<<>>)

NextExercise ==
    \/ StartExercise
    \/ ExecuteCommand
    \/ GetHint
    \/ ValidateCommands
    \/ ValidateCursorPosition
    \/ ValidateCompletion

SpecExercise == InitExercise /\ [][NextExercise]_vars

(***************************************************************************)
(* The claims.                                                             *)
(***************************************************************************)
KeyPressed(key) == last.op = "process_input" /\ last.arg = key
Mutated == last.op \in MutatingOps /\ last.ret

\* C1: whatever keys the command interpreter has processed since the simulator
\* was constructed, the buffer holds at least one line.
C1_AtLeastOneLine == Len(buffer.lines) >= 1

\* dd has just run on a buffer of a single line
C1_Witness ==
    /\ KeyPressed("d")
    /\ pre.mm.current_mode = "normal"
    /\ pre.cp.command_buffer = <<"d">>
    /\ Len(pre.buf.lines) = 1
    /\ last.ret

\* C2: in every state reached by key input the cursor line is within the lines
\* and the cursor column is within 0..length of the cursor's line.
C2_CursorInBounds ==
    /\ 0 <= line_of(buffer) /\ line_of(buffer) < Len(buffer.lines)
    /\ 0 <= col_of(buffer) /\ col_of(buffer) <= Len(LineAt(buffer, line_of(buffer)))

\* C3: undo() called right after a mutating buffer operation returns true and
\* restores the lines and the cursor that held before the operation; with one
\* snapshot on the undo stack undo() returns false and changes nothing.
C3_UndoInvertsMutation ==
    /\ Mutated =>
          /\ undo(buffer).ret
          /\ ~undo(buffer).raised
          /\ undo(buffer).buf.lines = pre.buf.lines
          /\ undo(buffer).buf.cursor_pos = pre.buf.cursor_pos
    /\ Len(buffer.undo_stack) = 1 => undo(buffer) = Returned(buffer, FALSE)

\* a mutation that changed lines and cursor while the undo stack was full
C3_Witness ==
    /\ Mutated
    /\ Len(pre.buf.undo_stack) = max_undo_levels
    /\ buffer.lines # pre.buf.lines
    /\ buffer.cursor_pos # pre.buf.cursor_pos

\* C4: redo() called right after a successful undo() returns true and restores
\* the lines and the cursor that held just before that undo.
C4_RedoRestores ==
    (last.op = "undo" /\ last.ret) =>
        /\ ~redo(buffer).raised
        /\ redo(buffer).ret
        /\ redo(buffer).buf.lines = pre.buf.lines
        /\ redo(buffer).buf.cursor_pos = pre.buf.cursor_pos

\* C5: after a buffer mutation, also one that follows undos, the redo stack is
\* empty and redo() returns false without changing the buffer.
C5_MutationClearsRedo ==
    Mutated =>
        /\ buffer.redo_stack = <<>>
        /\ redo(buffer) = Returned(buffer, FALSE)

\* a mutation made while undone states were waiting on the redo stack
C5_Witness == Mutated /\ pre.buf.redo_stack # <<>>

\* C6: after max_undo_levels + 5 single-character insertions into a fresh
\* buffer, the k-th call of undo() returns true exactly when k <= max_undo_levels.
C6_UndoLimit ==
    (last.op = "undo" /\ calls > Insertions) =>
        (last.ret <=> calls - Insertions <= max_undo_levels)

\* C7: the undo stack holds between 1 and max_undo_levels snapshots, and a push
\* at the limit drops the oldest snapshot and keeps the newest.
C7_UndoStackBounded ==
    /\ 1 <= Len(buffer.undo_stack)
    /\ Len(buffer.undo_stack) <= max_undo_levels
    /\ Mutated =>
          buffer.undo_stack =
              LastN(Append(pre.buf.undo_stack, BufferState(pre.buf)), max_undo_levels)
    /\ (Mutated /\ Len(pre.buf.undo_stack) = max_undo_levels) =>
          /\ buffer.undo_stack[Len(buffer.undo_stack)] = BufferState(pre.buf)
          /\ SubSeq(buffer.undo_stack, 1, max_undo_levels - 1) = Tail(pre.buf.undo_stack)

\* a push onto a full undo stack whose oldest snapshot differs from the next
C7_Witness ==
    /\ Mutated
    /\ Len(pre.buf.undo_stack) = max_undo_levels
    /\ pre.buf.undo_stack[1] # pre.buf.undo_stack[2]

\* C8: switch_mode(t) with t outside the current mode's set of the transition
\* table, t = current mode included, returns false and leaves current_mode,
\* previous_mode and mode_history as they were.
C8_IllegalSwitchRejected ==
    (last.op = "switch_mode" /\ last.arg \notin valid_transitions(pre.mm.current_mode)) =>
        /\ ~last.ret
        /\ mode_manager = pre.mm

\* switch_mode(visual_line) was called in visual_line mode
C8_Witness ==
    /\ last.op = "switch_mode"
    /\ last.arg = "visual_line"
    /\ pre.mm.current_mode = "visual_line"

\* C9: a legal switch_mode(t) returns true, makes the old current mode the
\* previous mode and t the newest history entry; after any calls of switch_mode,
\* process_command and reset the last history entry is the current mode and the
\* one before it, if any, the previous mode.
C9_SwitchRecordsHistory ==
    /\ (last.op = "switch_mode" /\ last.arg \in valid_transitions(pre.mm.current_mode)) =>
          /\ last.ret
          /\ mode_manager.current_mode = last.arg
          /\ mode_manager.previous_mode = pre.mm.current_mode
    /\ mode_manager.mode_history[Len(mode_manager.mode_history)] = mode_manager.current_mode
    /\ Len(mode_manager.mode_history) >= 2 =>
          mode_manager.mode_history[Len(mode_manager.mode_history) - 1]
              = mode_manager.previous_mode

\* a legal switch between two modes other than normal
C9_Witness ==
    /\ last.op = "switch_mode"
    /\ last.ret
    /\ pre.mm.current_mode = "visual"
    /\ mode_manager.current_mode = "insert"
    /\ Len(mode_manager.mode_history) >= 2

\* C10: the Escape key pressed in Insert, Visual, VisualLine, VisualBlock,
\* Command or Replace mode leaves the simulator in Normal mode.
C10_EscapeReturnsToNormal ==
    (KeyPressed("Esc") /\ pre.mm.current_mode # "normal") =>
        mode_manager.current_mode = "normal"

\* C11: validate_command_sequence leaves the simulator's observable state
\* alone: whatever the sequence, valid or not, get_current_state() after the
\* call equals get_current_state() before it.
C11_ValidateLeavesStateAlone ==
    [][last'.op = "validate_command_sequence" =>
          get_current_state(State, simulator)' = get_current_state(State, simulator)]_vars

\* the key sequence accumulated in Normal mode by the last key
Accumulated == Append(pre.cp.command_buffer, last.arg)
\* the last key was pressed in Normal mode, and the sequence accumulated with it
\* is no command of the Normal-mode table, no strict prefix of one, and the
\* key is no mode-switch key
UnknownNormalKey ==
    /\ last.op = "process_input"
    /\ pre.mm.current_mode = "normal"
    /\ Accumulated \notin NormalCommands
    /\ ~\E cmd \in NormalCommands :
          Len(cmd) > Len(Accumulated) /\ SubSeq(cmd, 1, Len(Accumulated)) = Accumulated
    /\ last.arg \notin ModeCommandKeys
\* the last key failed with an error and left lines, cursor and mode alone
RejectedUntouched ==
    /\ ~last.res.success
    /\ last.res.error # "None"
    /\ ~last.raised
    /\ buffer.lines = pre.buf.lines
    /\ buffer.cursor_pos = pre.buf.cursor_pos
    /\ mode_manager.current_mode = pre.mm.current_mode

\* C12 (as stated): in Normal mode a key whose accumulated sequence is neither
\* a known command, nor a strict prefix of one, nor a mode-switch key fails
\* with a non-empty error, does not raise, and leaves lines, cursor and mode
\* unchanged.
C12_UnknownKeyRejected == UnknownNormalKey => RejectedUntouched

\* C12 (amended): the same, for a key that is not taken as a digit of the
\* repeat count (a digit 1-9 pressed while no partial command is pending is
\* accepted with success = true before Normal-mode processing is reached).
C12_UnknownKeyRejectedUnlessCount ==
    (UnknownNormalKey /\ ~IsCountKey(pre, last.arg)) => RejectedUntouched

\* an unknown key pressed while a partial command and a repeat count are pending
C12_Witness ==
    /\ UnknownNormalKey
    /\ ~IsCountKey(pre, last.arg)
    /\ pre.cp.command_buffer = <<"d">>
    /\ pre.cp.repeat_count > 1

\* the last key was a single-key Normal-mode command whose buffer operation
\* cannot apply in the state it was pressed in: x at the end of the last line,
\* X at line 0 column 0, h at column 0, k on the first line, j on the last
\* line, u with nothing to undo
InapplicableCommand ==
    /\ last.op = "process_input"
    /\ pre.mm.current_mode = "normal"
    /\ pre.cp.command_buffer = <<>>
    /\ \/ last.arg = "x" /\ ~delete_char_at_cursor(pre.buf).ret
       \/ last.arg = "X" /\ ~delete_char_before_cursor(pre.buf).ret
       \/ last.arg = "h" /\ col_of(pre.buf) = 0
       \/ last.arg = "k" /\ line_of(pre.buf) = 0
       \/ last.arg = "j" /\ line_of(pre.buf) = get_line_count(pre.buf) - 1
       \/ last.arg = "u" /\ Len(pre.buf.undo_stack) <= 1

\* C13: a Normal-mode command that cannot apply in the current state returns
\* a result with success = false, does not raise, and leaves buffer lines and
\* cursor unchanged.
C13_InapplicableCommandFails ==
    InapplicableCommand =>
        /\ ~last.res.success
        /\ ~last.raised
        /\ buffer.lines = pre.buf.lines
        /\ buffer.cursor_pos = pre.buf.cursor_pos

RECURSIVE DecimalFrom(_, _)
DecimalFrom(digits, n) ==
    IF digits = <<>> THEN n ELSE DecimalFrom(Tail(digits), n * 10 + int(Head(digits)))
\* the number that the digit keys d1 ... dk write in decimal
Decimal(digits) == DecimalFrom(digits, 0)

\* the last call typed the non-zero digit keys of last.arg, and nothing else,
\* into a simulator in Normal mode with no partial command and no count pending
DigitsTyped ==
    /\ last.op = "execute_command_sequence"
    /\ last.arg # <<>>
    /\ \A i \in 1..Len(last.arg) : isdigit(last.arg[i]) /\ last.arg[i] # "0"
    /\ pre.mm.current_mode = "normal"
    /\ pre.cp.command_buffer = <<>>
    /\ pre.cp.repeat_count = 1

\* C14: in Normal mode with no partial command pending, typing the non-zero
\* digit keys d1 ... dk makes the pending repeat count the decimal number
\* d1...dk; with no digit typed the count is 1.
C14_DigitsMakeCount ==
    /\ calls = 0 => command_processor.repeat_count = 1
    /\ DigitsTyped => command_processor.repeat_count = Decimal(last.arg)

\* the last key completed a command of the Normal-mode table
CommandMatched ==
    /\ last.op = "process_input"
    /\ pre.mm.current_mode = "normal"
    /\ ~IsCountKey(pre, last.arg)
    /\ ~process_command(pre.mm, last.arg).ret
    /\ Accumulated \in NormalCommands
\* the single command, that is the command under a count of 1, applied n
\* times in a row to the state the key was pressed in
AppliedTimes(n) == RepeatCommand(Accumulated, [pre EXCEPT !.cp.repeat_count = 1], n).st

\* C15: a Normal-mode command matched while the pending repeat count is n acts
\* on buffer and cursor as the single command applied exactly n times, is
\* recorded once in the command history, and leaves the repeat count at 1 and
\* the command buffer empty.
C15_CountRepeatsCommand ==
    CommandMatched =>
        /\ buffer.lines = AppliedTimes(pre.cp.repeat_count).buf.lines
        /\ buffer.cursor_pos = AppliedTimes(pre.cp.repeat_count).buf.cursor_pos
        /\ command_processor.command_history =
               Append(pre.cp.command_history, Accumulated)
        /\ command_processor.repeat_count = 1
        /\ command_processor.command_buffer = <<>>

\* the commands of the Normal-mode table that take two keys: dd, gg, g_, yy,
\* cc, cw
MultiKeyCommands == {cmd \in NormalCommands : Len(cmd) = 2}
\* the last key was pressed in Normal mode with nothing pending, and is the
\* first key of a two-key command
FirstKeyPressed ==
    /\ last.op = "process_input"
    /\ pre.mm.current_mode = "normal"
    /\ pre.cp.command_buffer = <<>>
    /\ \E cmd \in MultiKeyCommands : cmd[1] = last.arg
\* the last key was pressed in Normal mode and completes a two-key command
\* whose first key was pending
SecondKeyPressed ==
    /\ last.op = "process_input"
    /\ pre.mm.current_mode = "normal"
    /\ Len(pre.cp.command_buffer) = 1
    /\ Accumulated \in MultiKeyCommands

\* C16: for every two-key command of the Normal-mode table (dd, gg, g_, yy,
\* cc, cw), its first key pressed in Normal mode gives a successful partial
\* command result, leaves mode, lines and cursor unchanged and stays pending;
\* its second key pressed next executes the command.
C16_PartialCommandPending ==
    /\ FirstKeyPressed =>
          /\ last.res.success
          /\ ~last.res.mode_changed
          /\ mode_manager.current_mode = "normal"
          /\ buffer.lines = pre.buf.lines
          /\ buffer.cursor_pos = pre.buf.cursor_pos
          /\ command_processor.command_buffer = <<last.arg>>
    /\ SecondKeyPressed =>
          /\ last.res.success
          /\ command_processor.last_command = Accumulated
          /\ command_processor.command_buffer = <<>>

\* the last key was a single printable character typed in the given mode
PrintableTyped(mode) ==
    /\ last.op = "process_input"
    /\ pre.mm.current_mode = mode
    /\ isprintable(last.arg)

\* C17: in Insert mode every printable character key, the digits 1 to 9
\* included, is inserted at the cursor and advances the cursor by one; in
\* Command mode every printable character key, a digit typed first included,
\* is appended to the command line.
C17_PrintableKeysAreText ==
    /\ PrintableTyped("insert") =>
          /\ buffer.lines = insert_text(pre.buf, <<last.arg>>).buf.lines
          /\ buffer.cursor_pos = <<line_of(pre.buf), col_of(pre.buf) + 1>>
    /\ PrintableTyped("command") =>
          command_processor.command_buffer = Append(pre.cp.command_buffer, last.arg)

\* the last key was the given key pressed in Normal mode
NormalKeyPressed(key) == KeyPressed(key) /\ pre.mm.current_mode = "normal"
\* the line the cursor was on before the last key
LineBefore == LineAt(pre.buf, line_of(pre.buf))

\* C18: an insert-entry key pressed in Normal mode positions the cursor before
\* Insert mode is entered: a moves it one column right (when not already past
\* the last character), A puts it after the last character of the line, I on
\* the first non-blank column, o adds an empty line below the cursor line and
\* O one above it with the cursor on the new line; i leaves it in place.
C18_InsertEntryPositionsCursor ==
    /\ (last.op = "process_input" /\ pre.mm.current_mode = "normal"
            /\ last.arg \in {"i", "I", "a", "A", "o", "O"})
          => mode_manager.current_mode = "insert"
    /\ NormalKeyPressed("i") =>
          buffer.cursor_pos = pre.buf.cursor_pos /\ buffer.lines = pre.buf.lines
    /\ NormalKeyPressed("a") =>
          /\ buffer.cursor_pos =
                <<line_of(pre.buf), Min(col_of(pre.buf) + 1,
                                        Max(col_of(pre.buf), Len(LineBefore)))>>
          /\ buffer.lines = pre.buf.lines
    /\ NormalKeyPressed("A") =>
          /\ buffer.cursor_pos = <<line_of(pre.buf), Len(LineBefore)>>
          /\ buffer.lines = pre.buf.lines
    /\ NormalKeyPressed("I") =>
          /\ buffer.cursor_pos = <<line_of(pre.buf), SkipSpace(LineBefore, 0)>>
          /\ buffer.lines = pre.buf.lines
    /\ NormalKeyPressed("o") =>
          /\ buffer.lines = ListInsert(pre.buf.lines, line_of(pre.buf) + 1, <<>>)
          /\ buffer.cursor_pos = <<line_of(pre.buf) + 1, 0>>
    /\ NormalKeyPressed("O") =>
          /\ buffer.lines = ListInsert(pre.buf.lines, line_of(pre.buf), <<>>)
          /\ buffer.cursor_pos = <<line_of(pre.buf), 0>>

\* the lines of b with the text from the cursor up to column k of its line removed
CursorTextDeleted(b, k) ==
    ListSet(b.lines, line_of(b),
            Take(LineAt(b, line_of(b)), col_of(b)) \o Drop(LineAt(b, line_of(b)), k))
\* the lines of b with the cursor line made empty
CursorLineEmptied(b) == ListSet(b.lines, line_of(b), <<>>)
\* this step is the given key pressed in Normal mode
TypedInNormal(key) ==
    KeyPressed(key)' /\ mode_manager.current_mode = "normal"
        /\ command_processor.command_buffer = <<>>
\* this step is the given key pressed right after c was pressed in Normal mode
TypedAfterC(key) == NormalKeyPressed("c") /\ pre.cp.command_buffer = <<>> /\ KeyPressed(key)'

\* C19: each change command typed in Normal mode (cc, C, cw, s, S) ends in
\* Insert mode with its target text deleted and nothing inserted: s removes the
\* character under the cursor, S and cc empty the cursor line's content.
C19_ChangeDeletesTarget ==
    [][ /\ TypedInNormal("s") =>
             /\ mode_manager'.current_mode = "insert"
             /\ buffer'.lines = CursorTextDeleted(buffer, col_of(buffer) + 1)
        /\ TypedInNormal("S") =>
             /\ mode_manager'.current_mode = "insert"
             /\ buffer'.lines = CursorLineEmptied(buffer)
        /\ TypedInNormal("C") =>
             /\ mode_manager'.current_mode = "insert"
             /\ buffer'.lines = CursorTextDeleted(buffer, Len(LineAt(buffer, line_of(buffer))))
        /\ TypedAfterC("c") =>
             /\ mode_manager'.current_mode = "insert"
             /\ buffer'.lines = CursorLineEmptied(pre.buf)
        /\ TypedAfterC("w") =>
             /\ mode_manager'.current_mode = "insert"
             /\ \E k \in col_of(pre.buf)..Len(LineAt(pre.buf, line_of(pre.buf))) :
                   buffer'.lines = CursorTextDeleted(pre.buf, k)
       ]_vars

\* the visual mode each visual-entry key stands for
VisualEntryMode(key) ==
    CASE key = "v" -> "visual" [] key = "V" -> "visual_line" [] key = "C-v" -> "visual_block"
\* the last key was a movement key that a visual mode accepted
VisualMovementAccepted ==
    /\ last.op = "process_input" /\ is_visual_mode(pre.mm)
    /\ last.arg \in MovementCommands /\ last.res.success /\ last.res.cursor_moved

\* C20: after v, V or Ctrl-V is pressed in Normal mode the mode is the
\* corresponding visual mode and visual_start and visual_end both equal the
\* cursor position; after each movement key accepted in a visual mode,
\* visual_end equals the new cursor position and visual_start is unchanged.
C20_VisualSelectionFollowsCursor ==
    /\ \A key \in {"v", "V", "C-v"} :
          NormalKeyPressed(key) =>
             /\ mode_manager.current_mode = VisualEntryMode(key)
             /\ buffer.visual_start = buffer.cursor_pos
             /\ buffer.visual_end = buffer.cursor_pos
    /\ VisualMovementAccepted =>
          /\ buffer.visual_end = buffer.cursor_pos
          /\ buffer.visual_start = pre.buf.visual_start

\* C21: in any visual mode entered by key input, pressing d returns a successful
\* result, clears the visual selection (visual_start and visual_end become
\* None) and leaves the simulator in Normal mode.
C21_VisualDeleteReturnsToNormal ==
    (KeyPressed("d") /\ is_visual_mode(pre.mm)) =>
        /\ last.res.success /\ ~last.raised
        /\ buffer.visual_start = None /\ buffer.visual_end = None
        /\ mode_manager.current_mode = "normal"

\* the column of the first whitespace character of the line (its length if none)
FirstSpace(line) ==
    IF \E i \in 1..Len(line) : isspace(line[i])
    THEN (CHOOSE i \in 1..Len(line) :
             isspace(line[i]) /\ \A j \in 1..(i - 1) : ~isspace(line[j])) - 1
    ELSE Len(line)
\* the line starts with a token that has punctuation between alphanumeric
\* runs, and another token follows it after whitespace
PunctuatedFirstToken(line) ==
    LET k == SkipAlnum(line, 0)
    IN  /\ 0 < k /\ k + 1 < FirstSpace(line)
        /\ ~isalnum(line[k + 1]) /\ isalnum(line[k + 2])
        /\ SkipSpace(line, FirstSpace(line)) < Len(line)
\* the last key was a word motion typed without a count at column 0 of such a line
WordMotionTyped(key) ==
    /\ NormalKeyPressed(key)
    /\ pre.cp.repeat_count = 1 /\ pre.cp.command_buffer = <<>>
    /\ col_of(pre.buf) = 0
    /\ PunctuatedFirstToken(LineBefore)

\* C22: on a line whose first token contains punctuation between alphanumeric
\* runs, followed by whitespace and another token, with the cursor at column 0,
\* w moves the cursor to the punctuation character while W moves it to the
\* start of the next whitespace-delimited token, so that the two motions end at
\* different columns.
C22_WordAndWORDDiffer ==
    /\ WordMotionTyped("w") =>
          buffer.cursor_pos = <<line_of(pre.buf), SkipAlnum(LineBefore, 0)>>
    /\ WordMotionTyped("W") =>
          buffer.cursor_pos = <<line_of(pre.buf), SkipSpace(LineBefore, FirstSpace(LineBefore))>>
    /\ (WordMotionTyped("w") \/ WordMotionTyped("W")) =>
          _move_word(pre, "forward").st.buf.cursor_pos
             # _move_WORD(pre, "forward").st.buf.cursor_pos

RECURSIVE DeletedBack(_, _)
\* the buffer after n calls of delete_char_before_cursor()
DeletedBack(b, n) ==
    IF n <= 0 THEN b ELSE DeletedBack(delete_char_before_cursor(b).buf, n - 1)
\* insert_text(text), then len(text) calls of delete_char_before_cursor()
InsertedAndDeletedBack(b, text) == DeletedBack(insert_text(b, text).buf, Len(text))

\* C23: for every reachable buffer state and every non-empty text (with or
\* without newlines), insert_text(text) followed by len(text) calls of
\* delete_char_before_cursor() leaves the buffer with the lines and the cursor
\* position it had before the insertion.
C23_InsertDeleteRoundTrip ==
    \A text \in Texts \ {<<>>} :
        /\ InsertedAndDeletedBack(buffer, text).lines = buffer.lines
        /\ InsertedAndDeletedBack(buffer, text).cursor_pos = buffer.cursor_pos

\* the last call was delete_char_at_cursor() with the cursor at the end of the
\* last line
DeletedAtEndOfBuffer ==
    /\ last.op = "delete_char_at_cursor"
    /\ line_of(pre.buf) = Len(pre.buf.lines) - 1
    /\ col_of(pre.buf) = Len(LineBefore)
\* the last call was delete_char_before_cursor() with the cursor at line 0,
\* column 0
DeletedBeforeStartOfBuffer ==
    last.op = "delete_char_before_cursor" /\ pre.buf.cursor_pos = <<0, 0>>

\* C24: delete_char_at_cursor() with the cursor at the end of the last line and
\* delete_char_before_cursor() with the cursor at line 0 column 0 return false
\* and leave lines, cursor, the modified flag, the undo stack and the redo stack
\* unchanged.
C24_DeleteAtBufferEdgeIsNoOp ==
    (DeletedAtEndOfBuffer \/ DeletedBeforeStartOfBuffer) =>
        /\ ~last.ret /\ ~last.raised
        /\ buffer.lines = pre.buf.lines
        /\ buffer.cursor_pos = pre.buf.cursor_pos
        /\ buffer.modified = pre.buf.modified
        /\ buffer.undo_stack = pre.buf.undo_stack
        /\ buffer.redo_stack = pre.buf.redo_stack

\* delete_char_at_cursor() was called at the end of a buffer that holds text,
\* is modified and has snapshots to undo
C24_Witness ==
    /\ DeletedAtEndOfBuffer
    /\ pre.buf.modified /\ Len(pre.buf.undo_stack) > 1 /\ LineBefore # <<>>

\* C25: for every reachable simulator state and every key, process_input
\* returns a response without raising, and the response's cursor_position, mode
\* and buffer_content equal the simulator's cursor, mode and lines after the
\* call, also when the command failed internally (Ctrl-R after an undo).
C25_ResponseReportsState ==
    last.op = "process_input" =>
        /\ ~last.raised
        /\ last.response.cursor_position = buffer.cursor_pos
        /\ last.response.mode = mode_manager.current_mode
        /\ last.response.buffer_content = buffer.lines
        /\ last.response.success = last.res.success

\* Ctrl-R was pressed after an undo that had moved the cursor back, and failed
C25_Witness ==
    /\ KeyPressed("C-r") /\ pre.mm.current_mode = "normal"
    /\ pre.buf.redo_stack # <<>>
    /\ ~last.response.success
    /\ buffer.cursor_pos # <<0, 0>>

\* the last call was restore_state
Restored == last.op = "restore_state"

\* C26: VimSimulator.restore_state never raises on a malformed state value
\* (empty lines list, cursor that is not a pair, unknown mode tag, missing
\* sections); it returns after either restoring or resetting, and in both
\* cases the simulator has at least one line, a cursor within bounds and a
\* valid mode.
C26_RestoreStateIsSafe ==
    Restored =>
        /\ ~last.raised /\ last.ret \in BOOLEAN
        /\ Len(buffer.lines) >= 1
        /\ C2_CursorInBounds
        /\ mode_manager.current_mode \in VimMode

\* the last call restored the manager's own get_state() into a fresh manager
RestoredIntoFresh == last.op = "get_state"

\* C27 as stated: for a ModeManager in any state reached by a sequence of mode
\* switches, restoring the value of get_state() into a fresh ModeManager yields
\* the same current_mode, the same previous_mode and a mode_history of the same
\* length.
C27_ModeStateRoundTrip ==
    RestoredIntoFresh =>
        /\ mode_manager.current_mode = pre.mm.current_mode
        /\ mode_manager.previous_mode = pre.mm.previous_mode
        /\ Len(mode_manager.mode_history) = Len(pre.mm.mode_history)

\* C27, amended: the restored manager has the same current_mode, the same
\* previous_mode and, as its mode_history, the last mode_history_saved entries
\* of the original history: the same length only when the original history has
\* at most that many entries.
C27_ModeStateRoundTripOfLastEntries ==
    RestoredIntoFresh =>
        /\ mode_manager.current_mode = pre.mm.current_mode
        /\ mode_manager.previous_mode = pre.mm.previous_mode
        /\ mode_manager.mode_history = LastN(pre.mm.mode_history, mode_history_saved)
        /\ Len(mode_manager.mode_history)
              = Min(Len(pre.mm.mode_history), mode_history_saved)

\* a manager whose history was longer than what get_state saves was restored
C27_Witness ==
    /\ RestoredIntoFresh
    /\ Len(pre.mm.mode_history) > mode_history_saved
    /\ pre.mm.current_mode # "normal"

\* the state has a mode tag that is no mode, in any of its three places
HasUnknownModeTag(state) ==
    \/ dict_get(state, "current_mode", "normal") \notin VimMode
    \/ dict_get(state, "previous_mode", "normal") \notin VimMode
    \/ \E i \in 1..Len(dict_get(state, "mode_history", <<"normal">>)) :
          dict_get(state, "mode_history", <<"normal">>)[i] \notin VimMode

\* C28: ModeManager.restore_state given a state in which current_mode,
\* previous_mode or any history entry is not a known mode tag does not raise
\* and leaves the manager in the reset state: current Normal, previous Normal,
\* history containing only Normal, whatever its state was before.
C28_UnknownModeTagResets ==
    (last.op = "restore_state" /\ HasUnknownModeTag(last.arg)) =>
        /\ ~last.raised
        /\ mode_manager.current_mode = "normal"
        /\ mode_manager.previous_mode = "normal"
        /\ mode_manager.mode_history = <<"normal">>

\* a state whose only unknown tag is a history entry was restored into a
\* manager that was in another mode with a longer history
C28_Witness ==
    /\ last.op = "restore_state"
    /\ dict_get(last.arg, "current_mode", "normal") \in VimMode
    /\ dict_get(last.arg, "previous_mode", "normal") \in VimMode
    /\ HasUnknownModeTag(last.arg)
    /\ pre.mm.current_mode # "normal" /\ Len(pre.mm.mode_history) > 1

\* the last call was a mode switch that succeeded on a history that was full
SwitchedOnFullHistory ==
    /\ last.op \in {"switch_mode", "process_command"} /\ last.ret
    /\ Len(pre.mm.mode_history) = mode_history_limit

\* C29: after any sequence of mode switches, mode_history has between 1 and
\* mode_history_limit entries; the switch that would make it one entry longer
\* than that leaves exactly the mode_history_keep most recently entered modes,
\* newest last.
C29_ModeHistoryBounded ==
    /\ 1 <= Len(mode_manager.mode_history)
    /\ Len(mode_manager.mode_history) <= mode_history_limit
    /\ SwitchedOnFullHistory =>
          /\ Len(mode_manager.mode_history) = mode_history_keep
          /\ mode_manager.mode_history
                = LastN(Append(pre.mm.mode_history, mode_manager.current_mode),
                        mode_history_keep)
          /\ mode_manager.mode_history[mode_history_keep] = mode_manager.current_mode

\* a key of the mode table switched the mode when the history was full
C29_Witness ==
    /\ SwitchedOnFullHistory
    /\ last.op = "process_command"
    /\ mode_manager.current_mode # "normal"

\* execute_command_sequence has just returned
SequenceExecuted == last.op = "execute_command_sequence"

\* the simulator after process_input of each of the first n keys of the
\* sequence, one after the other, from the state before the call
FirstKeysApplied(n) ==
    execute_command_sequence([buf |-> pre.buf, mm |-> pre.mm, cp |-> pre.cp], pre.sim,
                             SubSeq(last.arg, 1, n), FALSE)

\* C30: with learning mode on execute_command_sequence(keys) applies the keys in
\* order and stops at the first key whose response has success = false: there
\* is one response per applied key, only the last response can be a failed one,
\* keys are left over only after a failed response, and the simulator is as the
\* applied keys leave it; with learning mode off every key is applied
C30_SequenceStopsAtFirstFailure ==
    SequenceExecuted =>
        /\ Len(last.responses) <= Len(last.arg)
        /\ pre.sim.learning_mode =>
             /\ \A i \in 1..(Len(last.responses) - 1) : last.responses[i].success
             /\ Len(last.responses) < Len(last.arg) =>
                  ~last.responses[Len(last.responses)].success
        /\ ~pre.sim.learning_mode => Len(last.responses) = Len(last.arg)
        /\ last.responses = FirstKeysApplied(Len(last.responses)).responses
        /\ State = FirstKeysApplied(Len(last.responses)).st
        /\ simulator = FirstKeysApplied(Len(last.responses)).sim

\* a sequence stopped in learning mode with a key left over
C30_Witness ==
    /\ SequenceExecuted
    /\ pre.sim.learning_mode
    /\ Len(last.responses) = 2
    /\ Len(last.arg) = 3
    /\ ~last.responses[2].success

\* a sequence run to its end past a failed key with learning mode off
C30_LearningOffRunsOn ==
    /\ SequenceExecuted
    /\ ~pre.sim.learning_mode
    /\ Len(last.responses) = 3
    /\ ~last.responses[2].success
    /\ buffer.lines # pre.buf.lines

RECURSIVE Substituted(_, _, _, _)
\* the line with the first occurrence of old, or with all of them, replaced
\* by new
Substituted(line, old, new, all) ==
    IF line = <<>> \/ old = <<>> THEN line
    ELSE IF startswith(line, old)
    THEN new \o (IF all THEN Substituted(SubSeq(line, Len(old) + 1, Len(line)), old, new, all)
                 ELSE SubSeq(line, Len(old) + 1, Len(line)))
    ELSE <<Head(line)>> \o Substituted(Tail(line), old, new, all)

\* Enter was pressed on the command line that held the substitution c
SubstituteEntered(c) ==
    /\ KeyPressed("CR")
    /\ pre.mm.current_mode = "command"
    /\ pre.cp.command_buffer = SubstituteText(c)

\* C31: typing : then s/old/new/ and Enter replaces the first occurrence of old
\* on the cursor line with new, with the g flag every occurrence on that line;
\* the other lines are unchanged and the simulator ends in Normal mode
C31_SubstituteReplacesOnCursorLine ==
    \A c \in SubstituteCommands :
        SubstituteEntered(c) =>
            /\ buffer.lines =
                   [pre.buf.lines EXCEPT ![pre.buf.cursor_pos[1] + 1] =
                        Substituted(@, c.old, c.new, c.g)]
            /\ mode_manager.current_mode = "normal"

\* what the substitute command does: it succeeds, ends in Normal mode and
\* leaves the buffer as it was
C31_SubstituteChangesNothing ==
    \A c \in SubstituteCommands :
        SubstituteEntered(c) =>
            /\ last.res.success
            /\ buffer = pre.buf
            /\ mode_manager.current_mode = "normal"

\* the keys of the exercise in progress were fed one by one and make up log
ExecutedInExercise(log) ==
    /\ last.op = "execute_command"
    /\ current_exercise.active
    /\ current_exercise.commands_executed = log

\* C32: in an exercise validated by its commands that expects l, l, l on a
\* first line of at least three characters, feeding these three keys raises
\* nothing, moves the cursor from column 0 to column 3, and the last call
\* returns a completion result with passed = true and score = 100
C32_ThreeMovesCompleteExercise ==
    ( /\ ExecutedInExercise(<<"l", "l", "l">>)
      /\ current_exercise.exercise.validation_type = "commands"
      /\ current_exercise.exercise.expected_commands = <<"l", "l", "l">>
      /\ Len(Split(current_exercise.exercise.initial_text)[1]) >= 3 )
    => /\ ~last.raised
       /\ buffer.cursor_pos = <<0, 3>>
       /\ last.result.completion_result # NoExerciseResult
       /\ last.result.completion_result.passed
       /\ last.result.completion_result.score = 100

\* what execute_command does in an exercise: the key is processed and logged,
\* and the call raises
C32_ExecuteCommandRaises ==
    (last.op = "execute_command" /\ pre.ce.active) =>
        /\ last.raised
        /\ current_exercise.commands_executed = Append(pre.ce.commands_executed, last.arg)
        /\ ~current_exercise.is_completed

\* a validator of the commands was applied to an exercise validated by its
\* commands
CommandsValidated(name) ==
    /\ last.op = name
    /\ current_exercise.exercise.validation_type = "commands"

\* C33: for validation type commands a result with passed = true is produced
\* only when the executed key sequence is exactly expected_commands, on both
\* validation paths: no proper prefix, longer or diverging sequence passes
C33_OnlyExactSequencePasses ==
    ( /\ CommandsValidated("_validate_commands") \/ CommandsValidated("validate_completion")
      /\ last.result.passed )
    => current_exercise.commands_executed = current_exercise.exercise.expected_commands

\* the same of ExerciseEngine._validate_commands alone
C33_EnginePassesOnlyExactSequence ==
    (CommandsValidated("_validate_commands") /\ last.result.passed)
    => current_exercise.commands_executed = current_exercise.exercise.expected_commands

\* Exercise.validate_completion passes a sequence that goes on after the
\* expected one
C33_LongerSequencePasses ==
    /\ CommandsValidated("validate_completion")
    /\ last.result.passed
    /\ Len(current_exercise.commands_executed)
           > Len(current_exercise.exercise.expected_commands)

\* round(num / den): to the nearest integer, a tie to the even one
Rounded(num, den) ==
    LET q == num \div den
        twice == 2 * (num % den)
    IN  IF twice < den THEN q
        ELSE IF twice > den THEN q + 1
        ELSE IF q % 2 = 0 THEN q ELSE q + 1

\* the length of the longest common leading prefix of the executed and the
\* expected commands
CommonPrefixLen ==
    correct_count(current_exercise.commands_executed,
                  current_exercise.exercise.expected_commands, 0)

\* C34: for validation type commands, when the executed sequence is not
\* exactly the expected one, the score is round(p / len(expected_commands) *
\* 100), p the length of the longest common leading prefix of executed and
\* expected; also when the executed sequence diverges or is longer
C34_ScoreIsRoundedPrefixShare ==
    ( /\ CommandsValidated("_validate_commands")
      /\ current_exercise.commands_executed # current_exercise.exercise.expected_commands )
    => last.result.score
           = Rounded(CommonPrefixLen * 100, Len(current_exercise.exercise.expected_commands))

\* what _validate_commands gives: the share of a proper prefix of the expected
\* commands rounded down, and 0 for a sequence that diverges or is longer
C34_ScoreIsTruncatedShareOrZero ==
    ( /\ CommandsValidated("_validate_commands")
      /\ current_exercise.commands_executed # current_exercise.exercise.expected_commands )
    => last.result.score
           = IF CommonPrefixLen = Len(current_exercise.commands_executed)
             THEN (CommonPrefixLen * 100) \div Len(current_exercise.exercise.expected_commands)
             ELSE 0

\* a diverged sequence with a correct first command scores 0
C34_DivergedScoresZero ==
    /\ CommandsValidated("_validate_commands")
    /\ CommonPrefixLen > 0
    /\ CommonPrefixLen < Len(current_exercise.commands_executed)
    /\ last.result.score = 0

\* _validate_cursor_position was applied to an exercise validated by the
\* cursor position
CursorPositionValidated ==
    /\ last.op = "_validate_cursor_position"
    /\ current_exercise.exercise.validation_type = "cursor_position"

\* the lines and columns between the cursor and the expected position
CursorDistance ==
    abs(buffer.cursor_pos[1]
        - current_exercise.exercise.validation_params.expected_position[1])
    + abs(buffer.cursor_pos[2]
          - current_exercise.exercise.validation_params.expected_position[2])

\* C35: for validation type cursor_position the engine returns passed = true
\* with score 100 exactly when the cursor equals expected_position; otherwise
\* passed = false and score = max(0, 100 - 10 * (|line difference| + |column
\* difference|)), which lies in 0..90
C35_CursorScoreDecaysWithDistance ==
    CursorPositionValidated =>
        IF buffer.cursor_pos = current_exercise.exercise.validation_params.expected_position
        THEN last.result.passed /\ last.result.score = 100
        ELSE /\ ~last.result.passed
             /\ last.result.score = Max(0, 100 - 10 * CursorDistance)
             /\ last.result.score \in 0..90

\* the cursor is one step from the expected position
C35_Witness ==
    /\ CursorPositionValidated
    /\ CursorDistance = 1
    /\ last.result.score = 90

\* the cursor is on the expected position
C35_OnPosition ==
    /\ CursorPositionValidated
    /\ CursorDistance = 0
    /\ last.result.passed

\* the cursor is more than ten steps from the expected position
C35_FarAway ==
    /\ CursorPositionValidated
    /\ CursorDistance > 10
    /\ last.result.score = 0

\* execute_command was called during an exercise
ExecutedDuringExercise == last.op = "execute_command" /\ pre.ce.active

\* the executed log differs from the prefix of expected_commands of its
\* length, or is longer than expected_commands
LogDiverged ==
    \/ Len(current_exercise.commands_executed)
           > Len(current_exercise.exercise.expected_commands)
    \/ \E i \in 1..Len(current_exercise.commands_executed) :
           current_exercise.commands_executed[i]
               # current_exercise.exercise.expected_commands[i]

\* C36: during an exercise each execute_command(key) appends key to the
\* executed log and increases mistakes_made by exactly 1 when the log differs
\* from the prefix of expected_commands of the same length, by 0 otherwise
C36_MistakeCountedWhenLogDiverges ==
    ExecutedDuringExercise =>
        /\ current_exercise.commands_executed
               = Append(pre.ce.commands_executed, last.arg)
        /\ current_exercise.mistakes_made
               = pre.ce.mistakes_made + (IF LogDiverged THEN 1 ELSE 0)

\* after a divergence the key expected at its place counts as a mistake too
C36_Witness ==
    /\ ExecutedDuringExercise
    /\ pre.ce.mistakes_made = 1
    /\ Len(current_exercise.commands_executed)
           <= Len(current_exercise.exercise.expected_commands)
    /\ last.arg = current_exercise.exercise.expected_commands[
                      Len(current_exercise.commands_executed)]
    /\ current_exercise.mistakes_made = 2

\* a key after the whole expected sequence was executed counts as a mistake
C36_LongerLogCounts ==
    /\ ExecutedDuringExercise
    /\ pre.ce.commands_executed = current_exercise.exercise.expected_commands
    /\ pre.ce.mistakes_made = 0
    /\ current_exercise.mistakes_made = 1

\* get_hint was called during an exercise
HintAsked == last.op = "get_hint" /\ pre.ce.active

\* C37: for an active exercise with hints h1 ... hn the k-th call of
\* get_hint returns hk and raises hints_used to k while k <= n; every later
\* call returns None and leaves hints_used at n, so hints_used never exceeds
\* the number of hints
C37_HintsGivenInOrderUntilExhausted ==
    /\ current_exercise.active =>
           current_exercise.hints_used <= Len(current_exercise.exercise.hints)
    /\ HintAsked =>
           IF pre.ce.hints_used < Len(pre.ce.exercise.hints)
           THEN /\ current_exercise.hints_used = pre.ce.hints_used + 1
                /\ last.ret = pre.ce.exercise.hints[pre.ce.hints_used + 1]
           ELSE /\ current_exercise.hints_used = Len(pre.ce.exercise.hints)
                /\ last.ret = None

\* the call after the last of two hints was given
C37_Witness ==
    /\ HintAsked
    /\ Len(pre.ce.exercise.hints) = 2
    /\ pre.ce.hints_used = 2
    /\ current_exercise.hints_used = 2
    /\ last.ret = None

\* the second of two hints is given
C37_SecondHint ==
    /\ HintAsked
    /\ pre.ce.hints_used = 1
    /\ current_exercise.hints_used = 2
    /\ last.ret = "h2"

\* validate_command_sequence has just returned
SequenceValidated == last.op = "validate_command_sequence"

\* the lines and the cursor of the buffer after the key is pressed in state st
BufferAfterKey(st, key) == BufferState(process_key(st, key).st.buf)

\* C38: validate_command_sequence leaves the undo and redo history of the
\* session as it was: the buffer obtained by pressing u or Ctrl-R right after
\* a validation is the one the key would have produced without the validation
C38_ValidationKeepsUndoHistory ==
    SequenceValidated =>
        \A key \in {"u", "C-r"} :
            BufferAfterKey(State, key)
                = BufferAfterKey([buf |-> pre.buf, mm |-> pre.mm, cp |-> pre.cp], key)

\* what validation leaves behind: the undo stack as the validated keys made it
C38_UndoStackGrown ==
    /\ SequenceValidated
    /\ buffer.lines = pre.buf.lines
    /\ Len(buffer.undo_stack) > Len(pre.buf.undo_stack)

\* validation keeps the undo and redo stacks when the validated keys, typed
\* in Normal mode, save no state
C38_ValidationKeepsStacksOfReadOnlyKeys ==
    ( /\ SequenceValidated
      /\ pre.mm.current_mode = "normal"
      /\ last.arg \in {<<>>, <<"z">>, <<"3">>, <<"2", "5">>} ) =>
        /\ buffer.undo_stack = pre.buf.undo_stack
        /\ buffer.redo_stack = pre.buf.redo_stack

\* a key typed in Normal mode has left Normal mode
LeftNormalMode ==
    /\ last.op = "process_input"
    /\ pre.mm.current_mode = "normal"
    /\ mode_manager.current_mode # "normal"

\* a digit was typed in Insert mode or in a visual mode
DigitTypedOutsideNormal ==
    /\ last.op = "process_input"
    /\ isdigit(last.arg)
    /\ pre.mm.current_mode = "insert" \/ is_visual_mode(pre.mm)

\* C39: pending input does not carry over a change of mode: right after a key
\* that leaves Normal mode the repeat count is 1 and the command buffer is
\* empty, and a digit typed in Insert or a visual mode does not change the
\* repeat count
C39_PendingInputDroppedOnModeChange ==
    /\ LeftNormalMode =>
           /\ command_processor.repeat_count = 1
           /\ command_processor.command_buffer = <<>>
    /\ DigitTypedOutsideNormal =>
           command_processor.repeat_count = pre.cp.repeat_count

\* the first half of C39 alone: nothing pending after leaving Normal mode
C39_NothingPendingAfterLeavingNormal ==
    LeftNormalMode =>
        /\ command_processor.repeat_count = 1
        /\ command_processor.command_buffer = <<>>

\* the second half of C39 alone: a digit outside Normal mode is no count
C39_DigitOutsideNormalIsNoCount ==
    DigitTypedOutsideNormal => command_processor.repeat_count = pre.cp.repeat_count

\* what a key that leaves Normal mode does: count and command buffer stay
C39_PendingInputKept ==
    LeftNormalMode =>
        /\ command_processor.repeat_count = pre.cp.repeat_count
        /\ command_processor.command_buffer = pre.cp.command_buffer

\* start_exercise has just set up an exercise with initial text
StartedWithText == last.op = "start_exercise" /\ last.arg.initial_text # <<>>

RECURSIVE UndoneTimes(_, _)
\* the components after u was pressed n times
UndoneTimes(st, n) == IF n = 0 THEN st ELSE UndoneTimes(process_key(st, "u").st, n - 1)

\* C40: right after start_exercise on an exercise with initial text the
\* buffer content is initial_text with the cursor at line 0, column 0, and
\* there is nothing to undo: pressing u any number of times leaves the content
\* equal to initial_text
C40_NothingToUndoAfterStart ==
    StartedWithText =>
        /\ get_content(buffer) = last.arg.initial_text
        /\ buffer.cursor_pos = <<0, 0>>
        /\ \A n \in 1..3 : get_content(UndoneTimes(State, n).buf) = last.arg.initial_text

\* the first half of C40 alone: the content and the cursor after start_exercise
C40_StartSeedsBuffer ==
    StartedWithText =>
        /\ get_content(buffer) = last.arg.initial_text
        /\ buffer.cursor_pos = <<0, 0>>

\* what u does right after start_exercise: it empties the buffer
C40_UndoEmptiesBuffer ==
    StartedWithText => UndoneTimes(State, 1).buf.lines = << <<>> >>

====
